---------------------------- MODULE Spec2Model ----------------------------
(***************************************************************************)
(* Model of the IDT 8T49N24x clock-generator driver (clk-idt24x.c).       *)
(*                                                                         *)
(* The driver keeps a shadow of the chip registers that hold several      *)
(* fields, computes the VCO and output dividers for a requested rate, and  *)
(* writes them to the chip over a register bus whose writes can fail.      *)
(*                                                                         *)
(* TLC integers are 32-bit signed, while the driver computes with u32 and  *)
(* u64 values up to 2^53.  Such values are held as two base-2^16 limbs,    *)
(* <<hi, lo>> = hi * 2^16 + lo, and the C operators on them are the W...   *)
(* operators below, with the truncation of each C type kept explicit.      *)
(***************************************************************************)
EXTENDS Integers, Naturals, Sequences, FiniteSets, TLC

VARIABLES
    pc,      \* attach state: "init", "attached", "failed", "fault"
    dt,      \* platform description: upstream clock rate, xtal-freq property
    data,    \* struct clk_idt24x: cached frequencies and shadow registers
    hw,      \* register file of the chip, address -> byte
    divs,    \* struct idt24x_dividers of the last divider calculation
    calc,    \* locals of the last divider calculation (div, vco, pfd, rem)
    ret,     \* return value of the last call
    wlog,    \* register writes issued by the last call, in order
    call,    \* the last call and its arguments
    rlog     \* register reads issued by attach, in order, with their results

vars == <<pc, dt, data, hw, divs, calc, ret, wlog, call, rlog>>

----------------------------------------------------------------------------
(* Program constants                                                       *)

EINVAL == 22
EIO == 5
NOTIFY_DONE == 0
NOTIFY_OK == 1

IDT24x_REG_DBL_DIS == 108
IDT24x_REG_DBL_DIS_MASK == 1
IDT24x_REG_DSM_INT_8 == 37
IDT24x_REG_DSM_INT_8_MASK == 1
IDT24x_REG_DSM_INT_7_0 == 38
IDT24x_REG_DSMFRAC_20_16 == 40
IDT24x_REG_DSMFRAC_20_16_MASK == 31
IDT24x_REG_DSMFRAC_15_8 == 41
IDT24x_REG_DSMFRAC_7_0 == 42
IDT24x_REG_OUTEN == 57
IDT24x_REG_Q_DIS == 111
IDT24x_REG_OUTEN0_MASK == 1
IDT24x_REG_Q0_DIS_MASK == 1
IDT24x_REG_NS1_Q0 == 63
IDT24x_REG_NS1_Q0_MASK == 3
IDT24x_REG_NS2_Q0_15_8 == 64
IDT24x_REG_NS2_Q0_7_0 == 65
IDT24x_REG_OUTEN1_MASK == 2
IDT24x_REG_Q1_DIS_MASK == 2
IDT24x_REG_N_Q1_17_16 == 66
IDT24x_REG_N_Q1_17_16_MASK == 3
IDT24x_REG_N_Q1_15_8 == 67
IDT24x_REG_N_Q1_7_0 == 68
IDT24x_REG_NFRAC_Q1_27_24 == 87
IDT24x_REG_NFRAC_Q1_27_24_MASK == 15
IDT24x_REG_NFRAC_Q1_23_16 == 88
IDT24x_REG_NFRAC_Q1_15_8 == 89
IDT24x_REG_NFRAC_Q1_7_0 == 90
IDT24x_REG_OUTEN2_MASK == 4
IDT24x_REG_Q2_DIS_MASK == 4
IDT24x_REG_N_Q2_17_16 == 69
IDT24x_REG_N_Q2_17_16_MASK == 3
IDT24x_REG_N_Q2_15_8 == 70
IDT24x_REG_N_Q2_7_0 == 71
IDT24x_REG_NFRAC_Q2_27_24 == 91
IDT24x_REG_NFRAC_Q2_27_24_MASK == 15
IDT24x_REG_NFRAC_Q2_23_16 == 92
IDT24x_REG_NFRAC_Q2_15_8 == 93
IDT24x_REG_NFRAC_Q2_7_0 == 94
IDT24x_REG_OUTEN3_MASK == 8
IDT24x_REG_Q3_DIS_MASK == 8
IDT24x_REG_N_Q3_17_16 == 72
IDT24x_REG_N_Q3_17_16_MASK == 3
IDT24x_REG_N_Q3_15_8 == 73
IDT24x_REG_N_Q3_7_0 == 74
IDT24x_REG_NFRAC_Q3_27_24 == 95
IDT24x_REG_NFRAC_Q3_27_24_MASK == 15
IDT24x_REG_NFRAC_Q3_23_16 == 96
IDT24x_REG_NFRAC_Q3_15_8 == 97
IDT24x_REG_NFRAC_Q3_7_0 == 98

IDT24x_MIN_FREQ == 1000000
IDT24x_MAX_FREQ == 300000000
IDT24x_MIN_INT_DIVIDER == 6

----------------------------------------------------------------------------
(* C integer arithmetic on two-limb values                                 *)

\* The value n (below 2^31) as limbs.
W(n) == <<n \div 65536, n % 65536>>

\* Carry the low limb into the high limb.
WNorm(h, l) == <<h + (l \div 65536), l % 65536>>

\* a * k for a small factor k (k < 2^15), not truncated.
WMul(a, k) == WNorm(a[1] * k, a[2] * k)

\* a - b for a >= b.
WSub(a, b) ==
    IF a[2] >= b[2] THEN <<a[1] - b[1], a[2] - b[2]>>
    ELSE <<a[1] - b[1] - 1, a[2] + 65536 - b[2]>>

WLe(a, b) == a[1] < b[1] \/ (a[1] = b[1] /\ a[2] <= b[2])

WLt(a, b) == a[1] < b[1] \/ (a[1] = b[1] /\ a[2] < b[2])

\* Truncation to u32 and to u16.
U32(a) == <<a[1] % 65536, a[2]>>

U16(a) == a[2]

\* Bit i of a.
WBit(a, i) ==
    IF i < 16 THEN (a[2] \div (2 ^ i)) % 2 ELSE (a[1] \div (2 ^ (i - 16))) % 2

\* The limbs as one integer (the value must be below 2^31).
WNat(a) == a[1] * 65536 + a[2]

\* One step of binary long division by d: the remainder takes the next
\* dividend bit, and the quotient the next quotient bit.
WDivBit(s, d, bit) ==
    LET r2 == WNorm(2 * s.r[1], 2 * s.r[2] + bit)
        ge == WLe(d, r2)
    IN  [q |-> WNorm(2 * s.q[1], 2 * s.q[2] + (IF ge THEN 1 ELSE 0)),
         r |-> IF ge THEN WSub(r2, d) ELSE r2]

\* Long division of n by d from bit i of n down to bit 0, s being the
\* quotient and remainder so far.  (The test on t.q, always true, makes TLC
\* evaluate each step before the next.)
RECURSIVE WDivStep(_, _, _, _)
WDivStep(n, d, i, s) ==
    IF i < 0 THEN s
    ELSE LET t == WDivBit(s, d, WBit(n, i))
         IN  IF t.q[1] >= 0 THEN WDivStep(n, d, i - 1, t) ELSE t

\* div64_u64_rem(n, d, &rem) for d # 0: quotient q and remainder r.  The
\* dividends of the driver are u32 values, so the division starts at bit 31.
div64_u64_rem(n, d) ==
    WDivStep(n, d, 31, [q |-> <<0, 0>>, r |-> <<0, 0>>])

\* div64_u64(n, d) for d # 0.
div64_u64(n, d) == div64_u64_rem(n, d).q

\* The long division carried on through sh zero bits below bit 0.
RECURSIVE WDivShift(_, _, _)
WDivShift(s, d, sh) ==
    IF sh = 0 THEN s
    ELSE LET t == WDivBit(s, d, 0)
         IN  IF t.q[1] >= 0 THEN WDivShift(t, d, sh - 1) ELSE t

\* div64_u64(rem << sh, d) for rem < d < 2^32 and sh <= 21: the shifted
\* dividend is below 2^53, so the u64 shift loses nothing, and the division
\* of rem itself leaves quotient 0 and remainder rem.
div64_u64_shl(rem, sh, d) ==
    WDivShift([q |-> <<0, 0>>, r |-> rem], d, sh).q

IDT24x_VCO_MIN == WMul(W(2999997), 1000)
IDT24x_VCO_MAX == WMul(W(4000004), 1000)
IDT24x_VCO_OPT == WMul(W(3500000), 1000)

----------------------------------------------------------------------------
(* Divider calculation                                                     *)

\* The dividers before idt24x_calc_divs has written them.
NoDivs ==
    [dsmint |-> 0, dsmfrac |-> 0, ns1_q0 |-> 0, ns2_q0 |-> 0,
     nint |-> [i \in 0..2 |-> 0], nfrac |-> [i \in 0..2 |-> 0]]

NoCalc == [div |-> 0, vco |-> <<0, 0>>, pfd |-> <<0, 0>>, rem |-> <<0, 0>>]

\* A max_div that is not doubled back after the division by freq * 2.
MaxDiv_NotDoubled(freq) ==
    WNat(U32(div64_u64(IDT24x_VCO_MAX, U32(WMul(W(freq), 2)))))

\* max_div = div64_u64((u64)IDT24x_VCO_MAX, freq * 2) * 2, freq * 2 in u32.
MaxDiv(freq) ==
    WNat(U32(WMul(div64_u64(IDT24x_VCO_MAX, U32(WMul(W(freq), 2))), 2)))

\* A range test that has lost its lower limit.
VcoInRange_UpperOnly(vco) == WLe(vco, IDT24x_VCO_MAX)

\* vco >= IDT24x_VCO_MIN && vco <= IDT24x_VCO_MAX
VcoInRange(vco) == WLe(IDT24x_VCO_MIN, vco) /\ WLe(vco, IDT24x_VCO_MAX)

\* A walk step that keeps the first candidate at or below 3.5 GHz instead
\* of the highest.
WalkStep_FirstLow(freq, walk, st) ==
    LET vco == U32(WMul(W(freq), walk)) IN
    IF ~(WLe(IDT24x_VCO_MIN, vco) /\ WLe(vco, IDT24x_VCO_MAX)) THEN st
    ELSE IF WLe(vco, IDT24x_VCO_OPT)
         THEN IF ~st.is_lower_vco
              THEN [div |-> walk, best_vco |-> vco, is_lower_vco |-> TRUE]
              ELSE st
         ELSE IF ~st.is_lower_vco /\ WLt(st.best_vco, vco)
              THEN [st EXCEPT !.div = walk, !.best_vco = vco]
              ELSE st

\* One candidate of the divider walk: st holds div, best_vco, is_lower_vco.
WalkStep(freq, walk, st) ==
    LET vco == U32(WMul(W(freq), walk)) IN
    IF ~VcoInRange(vco) THEN st
    ELSE IF WLe(vco, IDT24x_VCO_OPT)
         THEN IF WLt(st.best_vco, vco) \/ ~st.is_lower_vco
              THEN [div |-> walk, best_vco |-> vco, is_lower_vco |-> TRUE]
              ELSE st
         ELSE IF ~st.is_lower_vco /\ WLt(st.best_vco, vco)
              THEN [st EXCEPT !.div = walk, !.best_vco = vco]
              ELSE st

\* while (walk <= max_div) { ...; walk += step; } for the n candidates
\* walk, walk + step, ..., taken in ascending order.  The candidates are split in
\* halves, lower half first, only to keep the evaluation depth logarithmic
\* (the test on lower.div, always true, makes TLC evaluate the lower half
\* before it starts on the upper half).
RECURSIVE WalkRange(_, _, _, _, _)
WalkRange(freq, walk, step, n, st) ==
    IF n <= 0 THEN st
    ELSE IF n = 1 THEN WalkStep(freq, walk, st)
    ELSE LET h == n \div 2
             lower == WalkRange(freq, walk, step, h, st)
         IN  IF lower.div >= 0
             THEN WalkRange(freq, walk + step * h, step, n - h, lower)
             ELSE lower

\* A walk over every integer divider: walk += 1.
DividerWalk_EveryInteger(freq, walk, max_div, st) ==
    WalkRange(freq, walk, 1, IF walk > max_div THEN 0
                             ELSE max_div - walk + 1, st)

\* The walk of idt24x_calc_divs: walk += 2 ("must be even").
DividerWalk(freq, walk, max_div, st) ==
    WalkRange(freq, walk, 2, IF walk > max_div THEN 0
                             ELSE (max_div - walk) \div 2 + 1, st)

\* A pfd that leaves the doubler out.
Pfd_NoDoubler(d) ==
    IF d.input_clk_freq = <<0, 0>> THEN d.xtal_freq ELSE d.input_clk_freq

\* A pfd whose product is kept in 16 bits.
Pfd_InU16(d) ==
    <<0, U16(WMul(IF d.input_clk_freq = <<0, 0>> THEN d.xtal_freq
                  ELSE d.input_clk_freq,
                  IF d.doubler_disabled THEN 1 ELSE 2))>>

\* pfd = (input_clk_freq == 0 ? xtal_freq : input_clk_freq)
\*       * (doubler_disabled ? 1 : 2), in u32.
Pfd(d) ==
    U32(WMul(IF d.input_clk_freq = <<0, 0>> THEN d.xtal_freq
             ELSE d.input_clk_freq,
             IF d.doubler_disabled THEN 1 ELSE 2))

\* A dsmfrac rounded to the nearest integer instead of cut.
DsmFrac_Nearest(rem, pfd) ==
    LET s == WDivShift([q |-> <<0, 0>>, r |-> rem], pfd, 21) IN
    WNat(U32(IF WLe(pfd, WMul(s.r, 2)) THEN WNorm(s.q[1], s.q[2] + 1)
             ELSE s.q))

\* dsmfrac = div64_u64(rem * 1<<21, pfd), stored in a u32.
DsmFrac(rem, pfd) == WNat(U32(div64_u64_shl(rem, 21, pfd)))

\* A stored divider that is the candidate itself.
HalfDivider_Whole(div) == div

\* divs->nint[1] = div64_u64((u64)div, 2): half the calculated divider.
HalfDivider(div) == div \div 2

\* idt24x_calc_divs(data, &divs): the return value, the dividers and the
\* locals it logs.  nint[1] and nfrac[1] are the dividers of output Q2.
\* With a zero pfd the division by pfd is undefined: trap is TRUE.
idt24x_calc_divs(d) ==
    LET freq == d.frequencies[2] IN
    IF freq = 0
    THEN [err |-> -EINVAL, trap |-> FALSE, divs |-> NoDivs, calc |-> NoCalc]
    ELSE
    LET max_div == MaxDiv(freq)
        st == DividerWalk(freq, IDT24x_MIN_INT_DIVIDER, max_div,
                  [div |-> 0, best_vco |-> <<0, 0>>, is_lower_vco |-> FALSE])
        div == st.div
    IN  IF div = 0
        THEN [err |-> -EINVAL, trap |-> FALSE, divs |-> NoDivs,
              calc |-> NoCalc]
        ELSE
        LET vco == U32(WMul(W(freq), div))
            pfd == Pfd(d)
        IN  IF pfd = <<0, 0>>
            THEN [err |-> 0, trap |-> TRUE,
                  divs |-> [NoDivs EXCEPT !.nint[1] = HalfDivider(div)],
                  calc |-> [div |-> div, vco |-> vco, pfd |-> pfd,
                            rem |-> <<0, 0>>]]
            ELSE
            LET qr == div64_u64_rem(vco, pfd) IN
            [err |-> 0, trap |-> FALSE,
             divs |-> [NoDivs EXCEPT !.nint[1] = HalfDivider(div),
                                     !.nfrac[1] = 0,
                                     !.dsmint = U16(qr.q),
                                     !.dsmfrac = DsmFrac(qr.r, pfd)],
             calc |-> [div |-> div, vco |-> vco, pfd |-> pfd, rem |-> qr.r]]

----------------------------------------------------------------------------
(* Device data                                                             *)

\* struct clk_idt24x after devm_kzalloc: every field zero.
ZeroData ==
    [min_freq |-> 0, max_freq |-> 0,
     input_clk_freq |-> <<0, 0>>, xtal_freq |-> <<0, 0>>,
     doubler_disabled |-> FALSE,
     frequencies |-> [i \in 0..3 |-> 0],
     regDSM_INT_8 |-> 0, regDSMFRAC_20_16 |-> 0,
     regOUTENx |-> 0, regQxDIS |-> 0, regNS1_Q0 |-> 0,
     regN_Qx_17_16 |-> [i \in 0..2 |-> 0],
     regNFRAC_Qx_27_24 |-> [i \in 0..2 |-> 0]]

\* Addresses of the chip registers the driver reads or writes.
Regs ==
    {31, 37, 38, 40, 41, 42, 57, 63, 64, 65, 108, 111}
    \cup (66..74) \cup (87..98)

NoCall == [fn |-> "none"]

----------------------------------------------------------------------------
(* Bit operations                                                          *)

\* a & b for 0 <= a, b < 2^16, bit by bit from bit 0.
RECURSIVE BitAnd(_, _)
BitAnd(a, b) ==
    IF a = 0 \/ b = 0 THEN 0
    ELSE (a % 2) * (b % 2) + 2 * BitAnd(a \div 2, b \div 2)

\* a | b for 0 <= a, b < 2^16.
BitOr(a, b) == a + b - BitAnd(a, b)

\* A clearing that drops the whole byte.
BitClear_DropsAll(a, m) == 0

\* a & ~m in a u8.
BitClear(a, m) == BitAnd(a, 255 - m)

\* a & b, ~a and a + 1 in unsigned int.
WAnd(a, b) == <<BitAnd(a[1], b[1]), BitAnd(a[2], b[2])>>

WNot(a) == <<65535 - a[1], 65535 - a[2]>>

WInc(a) == U32(WNorm(a[1], a[2] + 1))

\* The count of bits_to_shift once mask is reduced to m: count = 32, less
\* one if m is not zero, less 16, 8, 4, 2, 1 for each test of m that is
\* not zero.
LowBitCount(m) ==
    32 - (IF m # <<0, 0>> THEN 1 ELSE 0)
       - (IF WAnd(m, <<0, 65535>>) # <<0, 0>> THEN 16 ELSE 0)
       - (IF WAnd(m, <<255, 255>>) # <<0, 0>> THEN 8 ELSE 0)
       - (IF WAnd(m, <<3855, 3855>>) # <<0, 0>> THEN 4 ELSE 0)
       - (IF WAnd(m, <<13107, 13107>>) # <<0, 0>> THEN 2 ELSE 0)
       - (IF WAnd(m, <<21845, 21845>>) # <<0, 0>> THEN 1 ELSE 0)

\* A count that does not first isolate the lowest set bit of the mask.
bits_to_shift_NoIsolate(mask) == LowBitCount(W(mask))

\* bits_to_shift(mask): mask &= ~mask + 1 leaves the lowest set bit of
\* mask, and the count of zero bits on its right is returned.
bits_to_shift(mask) == LowBitCount(WAnd(W(mask), WInc(WNot(W(mask)))))

\* mask_and_shift(value, mask) for value < 2^16 and a non-zero mask.
mask_and_shift(value, mask) == BitAnd(value, mask) \div (2 ^ bits_to_shift(mask))

\* idt24x_get_offsets(output_num, &offsets): the fields it assigns.
idt24x_get_offsets(output_num) ==
    CASE output_num = 0 ->
            [err |-> 0,
             oe_offset |-> IDT24x_REG_OUTEN,
             oe_mask |-> IDT24x_REG_OUTEN0_MASK,
             dis_offset |-> IDT24x_REG_Q_DIS,
             dis_mask |-> IDT24x_REG_Q0_DIS_MASK,
             ns1_offset |-> IDT24x_REG_NS1_Q0,
             ns1_offset_mask |-> IDT24x_REG_NS1_Q0_MASK,
             ns2_15_8_offset |-> IDT24x_REG_NS2_Q0_15_8,
             ns2_7_0_offset |-> IDT24x_REG_NS2_Q0_7_0]
      [] output_num = 1 ->
            [err |-> 0,
             oe_offset |-> IDT24x_REG_OUTEN,
             oe_mask |-> IDT24x_REG_OUTEN1_MASK,
             dis_offset |-> IDT24x_REG_Q_DIS,
             dis_mask |-> IDT24x_REG_Q1_DIS_MASK,
             n_17_16_offset |-> IDT24x_REG_N_Q1_17_16,
             n_17_16_mask |-> IDT24x_REG_N_Q1_17_16_MASK,
             n_15_8_offset |-> IDT24x_REG_N_Q1_15_8,
             n_7_0_offset |-> IDT24x_REG_N_Q1_7_0,
             nfrac_27_24_offset |-> IDT24x_REG_NFRAC_Q1_27_24,
             nfrac_27_24_mask |-> IDT24x_REG_NFRAC_Q1_27_24_MASK,
             nfrac_23_16_offset |-> IDT24x_REG_NFRAC_Q1_23_16,
             nfrac_15_8_offset |-> IDT24x_REG_NFRAC_Q1_15_8,
             nfrac_7_0_offset |-> IDT24x_REG_NFRAC_Q1_7_0]
      [] output_num = 2 ->
            [err |-> 0,
             oe_offset |-> IDT24x_REG_OUTEN,
             oe_mask |-> IDT24x_REG_OUTEN2_MASK,
             dis_offset |-> IDT24x_REG_Q_DIS,
             dis_mask |-> IDT24x_REG_Q2_DIS_MASK,
             n_17_16_offset |-> IDT24x_REG_N_Q2_17_16,
             n_17_16_mask |-> IDT24x_REG_N_Q2_17_16_MASK,
             n_15_8_offset |-> IDT24x_REG_N_Q2_15_8,
             n_7_0_offset |-> IDT24x_REG_N_Q2_7_0,
             nfrac_27_24_offset |-> IDT24x_REG_NFRAC_Q2_27_24,
             nfrac_27_24_mask |-> IDT24x_REG_NFRAC_Q2_27_24_MASK,
             nfrac_23_16_offset |-> IDT24x_REG_NFRAC_Q2_23_16,
             nfrac_15_8_offset |-> IDT24x_REG_NFRAC_Q2_15_8,
             nfrac_7_0_offset |-> IDT24x_REG_NFRAC_Q2_7_0]
      [] output_num = 3 ->
            [err |-> 0,
             oe_offset |-> IDT24x_REG_OUTEN,
             oe_mask |-> IDT24x_REG_OUTEN3_MASK,
             dis_offset |-> IDT24x_REG_Q_DIS,
             dis_mask |-> IDT24x_REG_Q3_DIS_MASK,
             n_17_16_offset |-> IDT24x_REG_N_Q3_17_16,
             n_17_16_mask |-> IDT24x_REG_N_Q3_17_16_MASK,
             n_15_8_offset |-> IDT24x_REG_N_Q3_15_8,
             n_7_0_offset |-> IDT24x_REG_N_Q3_7_0,
             nfrac_27_24_offset |-> IDT24x_REG_NFRAC_Q3_27_24,
             nfrac_27_24_mask |-> IDT24x_REG_NFRAC_Q3_27_24_MASK,
             nfrac_23_16_offset |-> IDT24x_REG_NFRAC_Q3_23_16,
             nfrac_15_8_offset |-> IDT24x_REG_NFRAC_Q3_15_8,
             nfrac_7_0_offset |-> IDT24x_REG_NFRAC_Q3_7_0]
      [] OTHER -> [err |-> -EINVAL]

----------------------------------------------------------------------------
(* Register bus                                                            *)

\* A bus is the register file of the chip, the writes issued on it so far
\* and the positions, in the order of issue, of the writes that fail.
NewBus(h, fail) == [hw |-> h, log |-> <<>>, fail |-> fail]

\* do { err = regmap_write(...); if (err == 0) return 0; }
\* while (count++ <= maxAttempts); return err;  from attempt number count
\* on, out[k] being what attempt k of the bus transaction returns.  The
\* result is the return value and the number of attempts made.
RECURSIVE RetryLoop(_, _, _)
RetryLoop(out, count, maxAttempts) ==
    IF out[count] = 0 THEN [err |-> 0, attempts |-> count]
    ELSE IF count <= maxAttempts THEN RetryLoop(out, count + 1, maxAttempts)
    ELSE [err |-> out[count], attempts |-> count]

\* A retry that gives up one attempt before the bound it was given.
regmapWriteWithRetry_GivesUpEarly(out, maxAttempts) ==
    RetryLoop(out, 1, maxAttempts - 2)

\* regmapWriteWithRetry(map, offset, val, maxAttempts), count = 1 at first.
regmapWriteWithRetry(out, maxAttempts) == RetryLoop(out, 1, maxAttempts)

\* regmapBulkWriteWithRetry(map, offset, val, val_count, maxAttempts): the
\* same loop around regmap_bulk_write.
regmapBulkWriteWithRetry(out, maxAttempts) == RetryLoop(out, 1, maxAttempts)

\* The retry bound i2cwrite and i2cwritebulk pass as maxAttempts.
I2cMaxAttempts == 5

\* What the attempts at the next write on bus return: a write at a failing
\* position fails at every attempt, any other succeeds at once.
AttemptsOf(bus) ==
    IF (Len(bus.log) + 1) \in bus.fail
    THEN [k \in 1..(I2cMaxAttempts + 2) |-> -EIO]
    ELSE [k \in 1..(I2cMaxAttempts + 2) |-> 0]

\* i2cwrite(client, map, reg, val): the write is logged; it changes the
\* register unless every attempt at it fails, and then returns the error.
i2cwrite(bus, reg, val) ==
    LET err == regmapWriteWithRetry(AttemptsOf(bus), I2cMaxAttempts).err IN
    [bus |-> [hw |-> IF err = 0 THEN [bus.hw EXCEPT ![reg] = val] ELSE bus.hw,
              log |-> Append(bus.log, [reg |-> reg, val |-> val, err |-> err]),
              fail |-> bus.fail],
     err |-> err]

\* The value i2cwritewithmask hands to i2cwrite:
\* ((val << bits_to_shift(mask)) & mask) | (original & ~mask), mask # 0.
MaskedValue(val, original, mask) ==
    BitOr(BitAnd(val * (2 ^ bits_to_shift(mask)), mask),
          BitClear(original, mask))

i2cwritewithmask(bus, reg, val, original, mask) ==
    i2cwrite(bus, reg, MaskedValue(val, original, mask))

\* The writes ws[i], ws[i + 1], ... in order, up to the first that fails.
RECURSIVE RunWrites(_, _, _)
RunWrites(bus, ws, i) ==
    IF i > Len(ws) THEN [bus |-> bus, err |-> 0]
    ELSE LET r == i2cwrite(bus, ws[i].reg, ws[i].val)
         IN  IF r.err # 0 THEN r ELSE RunWrites(r.bus, ws, i + 1)

----------------------------------------------------------------------------
(* Handlers of the driver                                                  *)

\* The shadow byte with the bit under mask set (on) or cleared:
\* shadow & ~mask, then | (1 << bits_to_shift(mask)).
ShadowBit(shadow, mask, on) ==
    IF on THEN BitOr(BitClear(shadow, mask), 2 ^ bits_to_shift(mask))
    ELSE BitClear(shadow, mask)

\* An update of the shadows that gives the disable bit the sense of the
\* enable bit.
EnableShadows_SameSense(d, offsets, enable) ==
    [d EXCEPT !.regOUTENx = ShadowBit(d.regOUTENx, offsets.oe_mask, enable),
              !.regQxDIS = ShadowBit(d.regQxDIS, offsets.dis_mask, enable)]

\* The data after idt24x_enable_output has updated the two shadows.
EnableShadows(d, offsets, enable) ==
    [d EXCEPT !.regOUTENx = ShadowBit(d.regOUTENx, offsets.oe_mask, enable),
              !.regQxDIS = ShadowBit(d.regQxDIS, offsets.dis_mask, ~enable)]

\* The two writes that end idt24x_enable_output, d2 holding the shadows.
WriteEnableShadows(d2, bus) ==
    LET w1 == i2cwrite(bus, IDT24x_REG_OUTEN, d2.regOUTENx) IN
    IF w1.err # 0 THEN [data |-> d2, bus |-> w1.bus, err |-> w1.err]
    ELSE LET w2 == i2cwrite(w1.bus, IDT24x_REG_Q_DIS, d2.regQxDIS)
         IN  [data |-> d2, bus |-> w2.bus, err |-> w2.err]

\* idt24x_enable_output(data, output, enable): the shadows of the enable
\* and disable registers take the new bit of the output first, then the two
\* shadows are written to the chip, the second only if the first succeeded.
idt24x_enable_output(d, output, enable, bus) ==
    LET offsets == idt24x_get_offsets(output) IN
    IF offsets.err # 0 THEN [data |-> d, bus |-> bus, err |-> offsets.err]
    ELSE WriteEnableShadows(EnableShadows(d, offsets, enable), bus)

\* The register writes of idt24x_update_device for DSMINT, DSMFRAC and the
\* dividers of output Q0, in the order of the code.  A masked write is
\* given as the value i2cwritewithmask hands on.
VcoWrites(d, dv) ==
    << [reg |-> IDT24x_REG_DSM_INT_8,
        val |-> MaskedValue(BitAnd(dv.dsmint \div 256,
                                   IDT24x_REG_DSM_INT_8_MASK),
                            d.regDSM_INT_8, IDT24x_REG_DSM_INT_8_MASK)],
       [reg |-> IDT24x_REG_DSM_INT_7_0, val |-> dv.dsmint % 256],
       [reg |-> IDT24x_REG_DSMFRAC_20_16,
        val |-> MaskedValue(BitAnd(dv.dsmfrac \div 65536,
                                   IDT24x_REG_DSMFRAC_20_16_MASK),
                            d.regDSM_INT_8, IDT24x_REG_DSMFRAC_20_16_MASK)],
       [reg |-> IDT24x_REG_DSMFRAC_15_8, val |-> (dv.dsmfrac \div 256) % 256],
       [reg |-> IDT24x_REG_DSMFRAC_7_0, val |-> dv.dsmfrac % 256],
       [reg |-> IDT24x_REG_NS1_Q0,
        val |-> MaskedValue(BitAnd(dv.ns1_q0 \div 256,
                                   IDT24x_REG_NS1_Q0_MASK),
                            d.regNS1_Q0, IDT24x_REG_NS1_Q0_MASK)],
       [reg |-> IDT24x_REG_NS2_Q0_15_8, val |-> (dv.ns2_q0 \div 256) % 256],
       [reg |-> IDT24x_REG_NS2_Q0_7_0, val |-> dv.ns2_q0 % 256] >>

\* The register writes of idt24x_update_device for output x (1..3), whose
\* dividers are nint[x - 1] and nfrac[x - 1] (nfrac is below 2^28 here).
OutputWrites(d, dv, x, offsets) ==
    << [reg |-> offsets.n_17_16_offset,
        val |-> MaskedValue(BitAnd(dv.nint[x - 1] \div 65536,
                                   offsets.n_17_16_mask),
                            d.regN_Qx_17_16[x - 1], offsets.n_17_16_mask)],
       [reg |-> offsets.n_15_8_offset, val |-> (dv.nint[x - 1] \div 256) % 256],
       [reg |-> offsets.n_7_0_offset, val |-> dv.nint[x - 1] % 256],
       [reg |-> offsets.nfrac_27_24_offset,
        val |-> MaskedValue(BitAnd((dv.nfrac[x - 1] \div 16777216) % 256,
                                   offsets.nfrac_27_24_mask),
                            d.regNFRAC_Qx_27_24[x - 1],
                            offsets.nfrac_27_24_mask)],
       [reg |-> offsets.nfrac_23_16_offset,
        val |-> (dv.nfrac[x - 1] \div 65536) % 256],
       [reg |-> offsets.nfrac_15_8_offset,
        val |-> (dv.nfrac[x - 1] \div 256) % 256],
       [reg |-> offsets.nfrac_7_0_offset, val |-> dv.nfrac[x - 1] % 256] >>

\* The divider writes of the loop body for output x: none for an output
\* without a requested frequency.
OutputDividers(d, dv, bus, x) ==
    LET offsets == idt24x_get_offsets(x) IN
    IF d.frequencies[x] = 0 THEN [bus |-> bus, err |-> 0]
    ELSE IF offsets.err # 0 THEN [bus |-> bus, err |-> offsets.err]
    ELSE RunWrites(bus, OutputWrites(d, dv, x, offsets), 1)

RECURSIVE OutputLoop(_, _, _, _)
RECURSIVE AfterOutputWrites(_, _, _, _)
RECURSIVE NextOutput(_, _, _)

\* for (x = 1; x <= 3; x++) of idt24x_update_device, from output x on: the
\* dividers of an output with a requested frequency are written, stopping
\* at the first error, then the output is enabled or disabled, and the
\* return value of idt24x_enable_output is dropped.
OutputLoop(d, dv, bus, x) ==
    IF x > 3 THEN [data |-> d, bus |-> bus, err |-> 0]
    ELSE AfterOutputWrites(d, dv, x, OutputDividers(d, dv, bus, x))

\* What follows the divider writes of output x (0..3), which returned w:
\* return on their error, else enable or disable the output.
AfterOutputWrites(d, dv, x, w) ==
    IF w.err # 0 THEN [data |-> d, bus |-> w.bus, err |-> w.err]
    ELSE NextOutput(idt24x_enable_output(d, x, d.frequencies[x] # 0, w.bus),
                    dv, x)

\* The outputs after x, idt24x_enable_output having returned e for x.
NextOutput(e, dv, x) == OutputLoop(e.data, dv, e.bus, x + 1)

\* An update that enables or disables output Q0 before it writes the
\* dividers of the VCO and of Q0.
idt24x_update_device_EnableFirst(d, dv, bus) ==
    OutputLoop(d, dv,
               RunWrites(idt24x_enable_output(d, 0, d.frequencies[0] # 0,
                                              bus).bus,
                         VcoWrites(d, dv), 1).bus, 1)

\* idt24x_update_device(data, divs): the writes for the VCO and output Q0,
\* the enable of Q0, then the loop over outputs 1..3.
idt24x_update_device(d, dv, bus) ==
    AfterOutputWrites(d, dv, 0, RunWrites(bus, VcoWrites(d, dv), 1))

\* The result of idt24x_set_frequency from what a call in it returned
\* (data, bus, err) and the calculation c.
SetFrequencyResult(u, c) ==
    [data |-> u.data, bus |-> u.bus, err |-> u.err, trap |-> c.trap,
     divs |-> c.divs, calc |-> c.calc]

\* idt24x_set_frequency after idt24x_calc_divs has returned c: the device
\* is updated unless the calculation failed.
UpdateWithDivs(d, bus, c) ==
    IF c.err # 0 \/ c.trap
    THEN SetFrequencyResult([data |-> d, bus |-> bus, err |-> c.err], c)
    ELSE SetFrequencyResult(idt24x_update_device(d, c.divs, bus), c)

\* A set_frequency that returns 0 when it has no reference.
idt24x_set_frequency_QuietNoRef(d, bus) ==
    IF d.frequencies[2] = 0
    THEN SetFrequencyResult(idt24x_enable_output(d, 2, FALSE, bus),
                            [err |-> 0, trap |-> FALSE, divs |-> NoDivs,
                             calc |-> NoCalc])
    ELSE IF d.input_clk_freq = <<0, 0>> /\ d.xtal_freq = <<0, 0>>
    THEN [data |-> d, bus |-> bus, err |-> 0, trap |-> FALSE,
          divs |-> NoDivs, calc |-> NoCalc]
    ELSE UpdateWithDivs(d, bus, idt24x_calc_divs(d))

\* idt24x_set_frequency(data): the result also carries the dividers and
\* the locals of the calculation, and trap when the calculation divides by
\* a zero pfd.
idt24x_set_frequency(d, bus) ==
    IF d.frequencies[2] = 0
    THEN LET e == idt24x_enable_output(d, 2, FALSE, bus)
         IN  [data |-> e.data, bus |-> e.bus, err |-> 0, trap |-> FALSE,
              divs |-> NoDivs, calc |-> NoCalc]
    ELSE IF d.input_clk_freq = <<0, 0>> /\ d.xtal_freq = <<0, 0>>
    THEN [data |-> d, bus |-> bus, err |-> -EINVAL, trap |-> FALSE,
          divs |-> NoDivs, calc |-> NoCalc]
    ELSE
    UpdateWithDivs(d, bus, idt24x_calc_divs(d))

\* idt24x_get_output_num(clk).
idt24x_get_output_num == 2

\* A set_rate that has lost its range check.
idt24x_set_rate_NoRangeCheck(d, rate, bus) ==
    idt24x_set_frequency([d EXCEPT !.frequencies[2] = rate], bus)

\* A set_rate that keeps the rate it had when idt24x_set_frequency fails.
idt24x_set_rate_KeepsOldOnError(d, rate, bus) ==
    IF rate < d.min_freq \/ rate > d.max_freq
    THEN [data |-> d, bus |-> bus, err |-> -EINVAL, trap |-> FALSE,
          divs |-> NoDivs, calc |-> NoCalc]
    ELSE LET r == idt24x_set_frequency(
                      [d EXCEPT !.frequencies[idt24x_get_output_num] = rate],
                      bus)
         IN  IF r.err = 0 THEN r
             ELSE [r EXCEPT !.data.frequencies = d.frequencies]

\* idt24x_set_rate(hw, rate, parent_rate), rate below 2^31.
idt24x_set_rate(d, rate, bus) ==
    IF rate < d.min_freq \/ rate > d.max_freq
    THEN [data |-> d, bus |-> bus, err |-> -EINVAL, trap |-> FALSE,
          divs |-> NoDivs, calc |-> NoCalc]
    ELSE LET d2 == [d EXCEPT !.frequencies[idt24x_get_output_num] = rate]
         IN  idt24x_set_frequency(d2, bus)

\* idt24x_recalc_rate(hw, parent_rate).
idt24x_recalc_rate(d) == d.frequencies[2]

\* The result r of a transaction with new_rate stored as the reference.
StoreRate(r, new_rate) ==
    [r EXCEPT !.data.input_clk_freq = U32(new_rate)]

\* A callback that runs the transaction on the old reference and stores
\* the new rate after it.
idt24x_clk_notifier_cb_StaleRate(d, event, new_rate, bus) ==
    IF event = "POST_RATE_CHANGE"
    THEN [StoreRate(idt24x_set_frequency(d, bus), new_rate)
             EXCEPT !.err = NOTIFY_OK]
    ELSE [data |-> d, bus |-> bus, err |-> NOTIFY_OK, trap |-> FALSE,
          divs |-> NoDivs, calc |-> NoCalc]

\* A callback that on an abort runs the transaction again.
idt24x_clk_notifier_cb_AbortReapplies(d, event, new_rate, bus) ==
    IF event = "PRE_RATE_CHANGE"
    THEN [data |-> d, bus |-> bus, err |-> NOTIFY_OK, trap |-> FALSE,
          divs |-> NoDivs, calc |-> NoCalc]
    ELSE [idt24x_set_frequency(
              IF event = "POST_RATE_CHANGE"
              THEN [d EXCEPT !.input_clk_freq = U32(new_rate)] ELSE d, bus)
             EXCEPT !.err = NOTIFY_OK]

\* idt24x_clk_notifier_cb(nb, event, ndata): the new data and bus, and the
\* notifier return value in err.
idt24x_clk_notifier_cb(d, event, new_rate, bus) ==
    CASE event = "PRE_RATE_CHANGE" ->
            [data |-> d, bus |-> bus, err |-> NOTIFY_OK, trap |-> FALSE,
             divs |-> NoDivs, calc |-> NoCalc]
      [] event = "POST_RATE_CHANGE" ->
            LET d2 == [d EXCEPT !.input_clk_freq = U32(new_rate)]
                r == idt24x_set_frequency(d2, bus)
            IN  [r EXCEPT !.err = NOTIFY_OK]
      [] event = "ABORT_RATE_CHANGE" ->
            [data |-> d, bus |-> bus, err |-> NOTIFY_OK, trap |-> FALSE,
             divs |-> NoDivs, calc |-> NoCalc]
      [] OTHER ->
            [data |-> d, bus |-> bus, err |-> NOTIFY_DONE, trap |-> FALSE,
             divs |-> NoDivs, calc |-> NoCalc]

\* The reads of idt24x_read_from_hw in order: the shadow field each read
\* fills and the register address it reads.
ShadowReads ==
    << [field |-> "regDSM_INT_8", reg |-> IDT24x_REG_DSM_INT_8],
       [field |-> "regDSMFRAC_20_16", reg |-> IDT24x_REG_DSMFRAC_20_16_MASK],
       [field |-> "regOUTENx", reg |-> IDT24x_REG_OUTEN],
       [field |-> "regQxDIS", reg |-> IDT24x_REG_Q_DIS],
       [field |-> "regNS1_Q0", reg |-> IDT24x_REG_NS1_Q0],
       [field |-> "regN_Qx_17_16", index |-> 0,
        reg |-> idt24x_get_offsets(1).n_17_16_offset],
       [field |-> "regNFRAC_Qx_27_24", index |-> 0,
        reg |-> idt24x_get_offsets(1).nfrac_27_24_offset],
       [field |-> "regN_Qx_17_16", index |-> 1,
        reg |-> idt24x_get_offsets(2).n_17_16_offset],
       [field |-> "regNFRAC_Qx_27_24", index |-> 1,
        reg |-> idt24x_get_offsets(2).nfrac_27_24_offset],
       [field |-> "regN_Qx_17_16", index |-> 2,
        reg |-> idt24x_get_offsets(3).n_17_16_offset],
       [field |-> "regNFRAC_Qx_27_24", index |-> 2,
        reg |-> idt24x_get_offsets(3).nfrac_27_24_offset] >>

\* One regmap_read of register reg, with its result.
ReadOf(reg, err) == [reg |-> reg, err |-> err]

\* The shadow fields after read i of ShadowReads and the reads after it,
\* with the reads issued so far in log; read number rfail fails (0: none
\* does).
RECURSIVE ReadShadows(_, _, _, _, _)
ReadShadows(d, h, i, rfail, log) ==
    IF i > Len(ShadowReads) THEN [data |-> d, err |-> 0, reads |-> log]
    ELSE IF i = rfail
    THEN [data |-> d, err |-> -EIO,
          reads |-> Append(log, ReadOf(ShadowReads[i].reg, -EIO))]
    ELSE LET r == ShadowReads[i]
             d2 == IF r.field = "regN_Qx_17_16"
                   THEN [d EXCEPT !.regN_Qx_17_16[r.index] = h[r.reg]]
                   ELSE IF r.field = "regNFRAC_Qx_27_24"
                   THEN [d EXCEPT !.regNFRAC_Qx_27_24[r.index] = h[r.reg]]
                   ELSE [d EXCEPT ![r.field] = h[r.reg]]
         IN  ReadShadows(d2, h, i + 1, rfail, Append(log, ReadOf(r.reg, 0)))

\* The end of idt24x_read_from_hw after the shadow reads s: the doubler
\* flag is read only with a crystal.
ReadDoubler(s, h, rfail) ==
    IF s.err # 0 \/ s.data.xtal_freq = <<0, 0>> THEN s
    ELSE IF rfail = Len(ShadowReads) + 1
    THEN [data |-> s.data, err |-> -EIO,
          reads |-> Append(s.reads, ReadOf(IDT24x_REG_DBL_DIS, -EIO))]
    ELSE [data |-> [s.data EXCEPT !.doubler_disabled =
                       mask_and_shift(h[IDT24x_REG_DBL_DIS],
                                      IDT24x_REG_DBL_DIS_MASK) # 0],
          err |-> 0,
          reads |-> Append(s.reads, ReadOf(IDT24x_REG_DBL_DIS, 0))]

\* idt24x_read_from_hw(data): every shadow byte is read in turn and the
\* first failing read ends the function.
idt24x_read_from_hw(d, h, rfail) ==
    ReadDoubler(ReadShadows(d, h, 1, rfail, <<>>), h, rfail)

\* idt24x_probe(client, id) without a settings property: the reference is
\* the upstream clock if the platform has one, else the xtal-freq property.
idt24x_probe(t, h, rfail) ==
    LET d0 == [ZeroData EXCEPT !.min_freq = IDT24x_MIN_FREQ,
                               !.max_freq = IDT24x_MAX_FREQ]
        d1 == IF t.input_clk
              THEN [d0 EXCEPT !.input_clk_freq = U32(t.clk_rate)]
              ELSE [d0 EXCEPT !.xtal_freq = t.xtal_freq]
    IN  idt24x_read_from_hw(d1, h, rfail)

----------------------------------------------------------------------------
(* The device: attach, rate requests and upstream-clock notifications      *)

\* At most this many writes of one call fail.
MaxFailedWrites == 1

\* At most this many calls are made on an attached device.
MaxCalls == 2

\* Rates requested of output Q2: zero, below the minimum, in range, above
\* the maximum.
Rates == {0, 999999, 125000000, 300000001}

\* Rates of the upstream clock, at attach and in notifications.
ClkRates == {W(25000000), W(38880000)}

\* Values of the xtal-freq property.
XtalFreqs == {W(0), W(25000000)}

\* Platform descriptions: an upstream clock, an xtal-freq property, neither.
DtConfigs ==
    {[input_clk |-> TRUE, clk_rate |-> r, xtal_prop |-> FALSE,
      xtal_freq |-> <<0, 0>>] : r \in ClkRates}
    \cup
    {[input_clk |-> FALSE, clk_rate |-> <<0, 0>>, xtal_prop |-> TRUE,
      xtal_freq |-> x] : x \in XtalFreqs}
    \cup
    {[input_clk |-> FALSE, clk_rate |-> <<0, 0>>, xtal_prop |-> FALSE,
      xtal_freq |-> <<0, 0>>]}

\* Register contents of the chip before attach: all zero, or a different
\* byte in every register.
HwResets ==
    {[a \in Regs |-> 0], [a \in Regs |-> (a * 37 + 11) % 256]}

\* The sets of at most k failing positions among n writes.
RECURSIVE FailSets(_, _)
FailSets(n, k) ==
    IF k = 0 THEN {{}}
    ELSE LET P == FailSets(n, k - 1)
         IN  P \cup {F \cup {i} : F \in P, i \in 1..n}

\* The failures of a call that issues n writes: at most MaxFailedWrites
\* single writes fail, or every write from some position on fails.
FailPlans(n) == FailSets(n, MaxFailedWrites) \cup {k..n : k \in 1..n}

Events == {"PRE_RATE_CHANGE", "POST_RATE_CHANGE", "ABORT_RATE_CHANGE"}

Init ==
    /\ pc = "init"
    /\ dt \in DtConfigs
    /\ data = ZeroData
    /\ hw \in HwResets
    /\ divs = NoDivs
    /\ calc = NoCalc
    /\ ret = 0
    /\ wlog = <<>>
    /\ rlog = <<>>
    /\ call = [fn |-> "none", n |-> 0]

\* idt24x_probe: the device attaches unless the reference is missing or a
\* read of the chip fails.
Probe(rfail) ==
    /\ pc = "init"
    /\ IF ~dt.input_clk /\ ~dt.xtal_prop
       THEN /\ rfail = 0
            /\ pc' = "failed"
            /\ ret' = -EINVAL
            /\ data' = data
            /\ rlog' = <<>>
       ELSE LET r == idt24x_probe(dt, hw, rfail) IN
            /\ rfail <= Len(ShadowReads) + (IF dt.input_clk THEN 0 ELSE 1)
            /\ pc' = IF r.err = 0 THEN "attached" ELSE "failed"
            /\ ret' = r.err
            /\ data' = r.data
            /\ rlog' = r.reads
    /\ wlog' = <<>>
    /\ call' = [fn |-> "probe", n |-> 0]
    /\ UNCHANGED <<dt, hw, divs, calc>>

\* The state after a handler has returned res, having run on bus res.bus.
Returned(res, c) ==
    /\ ~res.trap
    /\ data' = res.data
    /\ hw' = res.bus.hw
    /\ wlog' = res.bus.log
    /\ divs' = res.divs
    /\ calc' = res.calc
    /\ ret' = res.err
    /\ call' = c
    /\ UNCHANGED <<pc, dt, rlog>>

\* clk_set_rate on the clock of the device.
SetRate(rate) ==
    /\ pc = "attached"
    /\ call.n < MaxCalls
    /\ \E fail \in FailPlans(Len(idt24x_set_rate(data, rate,
                                                 NewBus(hw, {})).bus.log)) :
          LET res == idt24x_set_rate(data, rate, NewBus(hw, fail))
          IN  Returned(res, [fn |-> "set_rate", n |-> call.n + 1,
                             rate |-> rate, fail |-> fail])

\* The notifier is on the chain of the upstream clock: idt24x_probe
\* registers it when it gets the clock, before it reads the chip, and no
\* error return of idt24x_probe takes it off the chain.
NotifierRegistered == pc \in {"attached", "failed"} /\ dt.input_clk

\* A rate-change notification of the upstream clock.  After a failed attach
\* the notifier block and the device data are in memory the device core
\* has released: this action is the outcome in which that memory still
\* holds what idt24x_probe left there, NotifyFault is the other one.
ClkNotify(event, new_rate) ==
    /\ NotifierRegistered
    /\ call.n < MaxCalls
    /\ \E fail \in FailPlans(Len(idt24x_clk_notifier_cb(data, event, new_rate,
                                                 NewBus(hw, {})).bus.log)) :
          LET res == idt24x_clk_notifier_cb(data, event, new_rate,
                                            NewBus(hw, fail))
          IN  Returned(res, [fn |-> "notifier", n |-> call.n + 1,
                             event |-> event, new_rate |-> new_rate,
                             fail |-> fail])

\* A rate-change notification after a failed attach, when the released
\* memory has been reused: the call through the notifier block faults.
NotifyFault ==
    /\ pc = "failed"
    /\ NotifierRegistered
    /\ pc' = "fault"
    /\ UNCHANGED <<dt, data, hw, divs, calc, ret, wlog, call, rlog>>

Next ==
    \/ \E rfail \in 0..(Len(ShadowReads) + 1) : Probe(rfail)
    \/ \E rate \in Rates : SetRate(rate)
    \/ \E event \in Events, new_rate \in ClkRates : ClkNotify(event, new_rate)
    \/ NotifyFault

Spec == Init /\ [][Next]_vars

----------------------------------------------------------------------------
(* The device with the clock framework also asking for its rate            *)

\* clk_get_rate on the clock of the device, through idt24x_recalc_rate:
\* the rate is returned; the call takes neither the register map nor the
\* chip, and writes and reads nothing.
RecalcRate ==
    /\ pc = "attached"
    /\ call.fn # "recalc_rate"
    /\ ret' = idt24x_recalc_rate(data)
    /\ wlog' = <<>>
    /\ call' = [fn |-> "recalc_rate", n |-> call.n, after |-> call.fn,
                err |-> ret]
    /\ UNCHANGED <<pc, dt, data, hw, divs, calc, rlog>>

NextRate == Next \/ RecalcRate

SpecRate == Init /\ [][NextRate]_vars

----------------------------------------------------------------------------
(* Divider calculation on its own: the inputs of idt24x_calc_divs are      *)
(* drawn in the initial state and one action applies it.                   *)

\* Requested rates of output Q2, all within [min_freq, max_freq].
CalcFreqs ==
    {1000000, 1000001, 25000000, 74250000, 100000000, 125000000, 148500000,
     156250000, 200000000, 250000000, 285714000, 299999000, 300000000}

\* Reference frequencies.
CalcRefs == {W(20000), W(25000000), W(38880000), W(40000000)}

\* The reference is the upstream clock (doubler flag never read, so FALSE)
\* or the crystal (doubler flag read from the chip).
CalcData ==
    {[ZeroData EXCEPT !.min_freq = IDT24x_MIN_FREQ,
                      !.max_freq = IDT24x_MAX_FREQ,
                      !.frequencies[2] = f,
                      !.input_clk_freq = r] :
        f \in CalcFreqs, r \in CalcRefs}
    \cup
    {[ZeroData EXCEPT !.min_freq = IDT24x_MIN_FREQ,
                      !.max_freq = IDT24x_MAX_FREQ,
                      !.frequencies[2] = f,
                      !.xtal_freq = r,
                      !.doubler_disabled = dd] :
        f \in CalcFreqs, r \in CalcRefs, dd \in BOOLEAN}

InitCalc ==
    /\ pc = "attached"
    /\ dt = [input_clk |-> FALSE, clk_rate |-> <<0, 0>>, xtal_prop |-> FALSE,
             xtal_freq |-> <<0, 0>>]
    /\ data \in CalcData
    /\ hw = [a \in Regs |-> 0]
    /\ divs = NoDivs
    /\ calc = NoCalc
    /\ ret = 0
    /\ wlog = <<>>
    /\ rlog = <<>>
    /\ call = NoCall

CalcDivsCall ==
    /\ call = NoCall
    /\ LET r == idt24x_calc_divs(data) IN
        /\ ~r.trap
        /\ divs' = r.divs
        /\ calc' = r.calc
        /\ ret' = r.err
    /\ call' = [fn |-> "calc_divs"]
    /\ UNCHANGED <<pc, dt, data, hw, wlog, rlog>>

NextCalc == CalcDivsCall

SpecCalc == InitCalc /\ [][NextCalc]_vars

----------------------------------------------------------------------------
(* Divider calculation with frequencies requested of the outputs it does   *)
(* not implement: idt24x_calc_divs tests frequencies[0], [1] and [3] of    *)
(* its argument, which idt24x_set_rate itself leaves at zero.              *)

\* A frequency requested of output Q0, Q1 or Q3: none, or 100 MHz.
OtherFreqs == {0, 100000000}

CalcOtherData ==
    {[ZeroData EXCEPT !.min_freq = IDT24x_MIN_FREQ,
                      !.max_freq = IDT24x_MAX_FREQ,
                      !.frequencies = [i \in 0..3 |-> IF i = 2 THEN f
                                                       ELSE o[i]],
                      !.xtal_freq = r] :
        f \in {0, 25000000, 125000000, 300000000}, r \in CalcRefs,
        o \in {g \in [{0, 1, 3} -> OtherFreqs] : \E i \in {0, 1, 3} : g[i] # 0}}

InitCalcOther ==
    /\ pc = "attached"
    /\ dt = [input_clk |-> FALSE, clk_rate |-> <<0, 0>>, xtal_prop |-> FALSE,
             xtal_freq |-> <<0, 0>>]
    /\ data \in CalcOtherData
    /\ hw = [a \in Regs |-> 0]
    /\ divs = NoDivs
    /\ calc = NoCalc
    /\ ret = 0
    /\ wlog = <<>>
    /\ rlog = <<>>
    /\ call = NoCall

SpecCalcOther == InitCalcOther /\ [][NextCalc]_vars

----------------------------------------------------------------------------
(* Divider calculation at the limits of the rate and of the reference      *)

\* Rates of output Q2 from IDT24x_MIN_FREQ to IDT24x_MAX_FREQ: the limits,
\* rates whose largest candidate gives 4,000,004,000 exactly, and rates
\* between.
LimitFreqs ==
    {1000000, 1000001, 2000002, 31250000, 100000000, 200000200, 250000250,
     285714571, 299999999, 300000000}

\* References up to 300 MHz.
LimitRefs ==
    {W(1), W(65535), W(25000000), W(150000001), W(299999999), W(300000000)}

CalcLimitData ==
    {[ZeroData EXCEPT !.min_freq = IDT24x_MIN_FREQ,
                      !.max_freq = IDT24x_MAX_FREQ,
                      !.frequencies[2] = f,
                      !.input_clk_freq = r] :
        f \in LimitFreqs, r \in LimitRefs}
    \cup
    {[ZeroData EXCEPT !.min_freq = IDT24x_MIN_FREQ,
                      !.max_freq = IDT24x_MAX_FREQ,
                      !.frequencies[2] = f,
                      !.xtal_freq = r,
                      !.doubler_disabled = dd] :
        f \in LimitFreqs, r \in LimitRefs, dd \in BOOLEAN}

InitCalcLimit ==
    /\ pc = "attached"
    /\ dt = [input_clk |-> FALSE, clk_rate |-> <<0, 0>>, xtal_prop |-> FALSE,
             xtal_freq |-> <<0, 0>>]
    /\ data \in CalcLimitData
    /\ hw = [a \in Regs |-> 0]
    /\ divs = NoDivs
    /\ calc = NoCalc
    /\ ret = 0
    /\ wlog = <<>>
    /\ rlog = <<>>
    /\ call = NoCall

SpecCalcLimit == InitCalcLimit /\ [][NextCalc]_vars

----------------------------------------------------------------------------
(* One retried write on its own: what each attempt of the bus transaction  *)
(* returns is drawn in the initial state, and one action applies i2cwrite  *)
(* or the write of one chunk of i2cwritebulk.                              *)

\* Attempts whose outcome is drawn: two more than the retry bound.
MaxTried == 7

\* What an attempt returns: success or one of two errors.
AttemptResults == {0, -EIO, -EINVAL}

RetryArgs ==
    {[fn |-> "args", reg |-> IDT24x_REG_DSM_INT_7_0, val |-> 90, out |-> o] :
        o \in [1..MaxTried -> AttemptResults]}

InitRetry ==
    /\ pc = "attached"
    /\ dt = [input_clk |-> FALSE, clk_rate |-> <<0, 0>>, xtal_prop |-> FALSE,
             xtal_freq |-> <<0, 0>>]
    /\ data = ZeroData
    /\ hw = [a \in Regs |-> 0]
    /\ divs = NoDivs
    /\ calc = NoCalc
    /\ ret = 0
    /\ wlog = <<>>
    /\ rlog = <<>>
    /\ call \in RetryArgs

\* The state after a retried write returned r: wlog holds one entry for
\* each bus transaction attempted, and the register changes on success.
RetryReturned(r, fn) ==
    /\ ret' = r.err
    /\ wlog' = [k \in 1..r.attempts |->
                  [reg |-> call.reg, val |-> call.val, err |-> call.out[k]]]
    /\ hw' = IF r.err = 0 THEN [hw EXCEPT ![call.reg] = call.val] ELSE hw
    /\ call' = [call EXCEPT !.fn = fn]
    /\ UNCHANGED <<pc, dt, data, divs, calc, rlog>>

\* i2cwrite: err = regmapWriteWithRetry(map, reg, val, 5).
RetryWriteCall ==
    /\ call.fn = "args"
    /\ RetryReturned(regmapWriteWithRetry(call.out, I2cMaxAttempts),
                     "i2cwrite")

\* i2cwritebulk, one chunk:
\* err = regmapBulkWriteWithRetry(map, blockOffset, block, n, 5).
RetryBulkCall ==
    /\ call.fn = "args"
    /\ RetryReturned(regmapBulkWriteWithRetry(call.out, I2cMaxAttempts),
                     "i2cwritebulk")

NextRetry == RetryWriteCall \/ RetryBulkCall

SpecRetry == InitRetry /\ [][NextRetry]_vars

----------------------------------------------------------------------------
(* Bulk writes: i2cwritebulk and the settings image written at attach      *)

WRITE_BLOCK_SIZE == 32

NUM_CONFIG_REGISTERS == 791

\* The registers a settings image covers.
ConfigRegs == 0..(NUM_CONFIG_REGISTERS - 1)

\* A bus for bulk writes: of every chunk whose number is in flaky, the first
\* fails attempts fail.
NewBulkBus(h, flaky, fails) ==
    [hw |-> h, log |-> <<>>, flaky |-> flaky, fails |-> fails]

\* What the attempts at the next chunk on bus return.
BulkAttemptsOf(bus) ==
    [k \in 1..(I2cMaxAttempts + 2) |->
        IF (Len(bus.log) + 1) \in bus.flaky /\ k <= bus.fails
        THEN -EIO ELSE 0]

\* The bus after regmapBulkWriteWithRetry returned r for block at reg: the
\* chunk is logged with its attempts, and it changes the registers unless
\* every attempt failed.
BulkWritten(bus, reg, block, r) ==
    [bus |-> [bus EXCEPT
                !.hw = IF r.err # 0 THEN @
                       ELSE [a \in DOMAIN @ |->
                               IF a >= reg /\ a < reg + Len(block)
                               THEN block[a - reg + 1] ELSE @[a]],
                !.log = Append(@, [reg |-> reg, val |-> block,
                                   err |-> r.err, attempts |-> r.attempts])],
     err |-> r.err]

\* err = regmapBulkWriteWithRetry(map, blockOffset, block, count, 5).
BulkChunk(bus, reg, block) ==
    BulkWritten(bus, reg, block,
                regmapBulkWriteWithRetry(BulkAttemptsOf(bus), I2cMaxAttempts))

\* The indexes from x on at which the loop writes a chunk:
\* if (x > 0 && (x+1) % WRITE_BLOCK_SIZE == 0).
FlushPoints(x, n) ==
    {y \in x..(n - 1) : y > 0 /\ (y + 1) % WRITE_BLOCK_SIZE = 0}

\* The first of them.
FirstFlush(x, n) ==
    CHOOSE y \in FlushPoints(x, n) : \A z \in FlushPoints(x, n) : y <= z

\* The loop of i2cwritebulk from index x on, where currentOffset is 0, and
\* the final write after it.  The iterations up to the next chunk only copy
\* val[x], val[x + 1], ... into block.
RECURSIVE BulkLoop(_, _, _, _, _)
\* After the chunk written at index y returned r: break on an error.
BulkAfterChunk(r, val, n, y, blockOffset) ==
    IF r.err # 0 THEN r
    ELSE BulkLoop(r.bus, val, n, y + 1, blockOffset + WRITE_BLOCK_SIZE)

\* The chunk written at index y holds the bytes copied since index x.
BulkFlush(bus, val, n, x, y, blockOffset) ==
    BulkAfterChunk(BulkChunk(bus, blockOffset, SubSeq(val, x + 1, y + 1)),
                   val, n, y, blockOffset)

BulkLoop(bus, val, n, x, blockOffset) ==
    IF FlushPoints(x, n) # {}
    THEN BulkFlush(bus, val, n, x, FirstFlush(x, n), blockOffset)
    ELSE IF n - x > 0 THEN BulkChunk(bus, blockOffset, SubSeq(val, x + 1, n))
    ELSE [bus |-> bus, err |-> 0]

\* A bulk write that leaves out the bytes after the last full block.
i2cwritebulk_DropsTail(bus, reg, val, val_count) ==
    BulkLoop(bus, val, val_count - (val_count % WRITE_BLOCK_SIZE), 0, reg)

\* i2cwritebulk(client, map, reg, val, val_count).
i2cwritebulk(bus, reg, val, val_count) ==
    BulkLoop(bus, val, val_count, 0, reg)

\* At most this many chunks of one bulk write have failing attempts.
MaxFlaky == 2

\* Lengths of the bulk writes made at a register other than 0.
BulkLens == {0, 1, 31, 32, 33, 64, 65}

\* The number of chunks a write of n bytes takes at most.
ChunksOf(n) == (n + WRITE_BLOCK_SIZE - 1) \div WRITE_BLOCK_SIZE

\* Byte x of the two byte patterns written.
PatternByte(p, x) == IF p = 1 THEN (x * 7 + 3) % 256 ELSE 255 - (x % 256)

\* Failing attempts of a flaky chunk: one, all but the last, all.
BulkFails == {1, I2cMaxAttempts, I2cMaxAttempts + 1}

\* The bulk writes made: short ones at two registers with either pattern,
\* and the settings image of a platform description.
BulkArgs ==
    {[fn |-> "args", reg |-> a, n |-> n,
      val |-> [x \in 1..n |-> PatternByte(p, x)],
      flaky |-> F, fails |-> f] :
        a \in {0, 16}, n \in BulkLens, p \in {1, 2},
        F \in FailSets(3, MaxFlaky), f \in BulkFails}
    \cup
    {[fn |-> "settings", reg |-> 0, n |-> NUM_CONFIG_REGISTERS,
      val |-> [x \in 1..NUM_CONFIG_REGISTERS |-> PatternByte(1, x)],
      flaky |-> F, fails |-> f] :
        F \in FailSets(ChunksOf(NUM_CONFIG_REGISTERS), MaxFlaky),
        f \in BulkFails}

InitBulk ==
    /\ pc = "init"
    /\ dt = [input_clk |-> FALSE, clk_rate |-> <<0, 0>>, xtal_prop |-> TRUE,
             xtal_freq |-> W(25000000)]
    /\ data = ZeroData
    /\ hw = [a \in ConfigRegs |-> 0]
    /\ divs = NoDivs
    /\ calc = NoCalc
    /\ ret = 0
    /\ wlog = <<>>
    /\ rlog = <<>>
    /\ call \in BulkArgs

\* The state after a bulk write returned r.
BulkReturned(r, fn) ==
    /\ ret' = r.err
    /\ wlog' = r.bus.log
    /\ hw' = r.bus.hw
    /\ call' = [call EXCEPT !.fn = fn]
    /\ UNCHANGED <<dt, data, divs, calc, rlog>>

\* i2cwritebulk called with the arguments of the state.
BulkCall ==
    /\ call.fn = "args"
    /\ BulkReturned(i2cwritebulk(NewBulkBus(hw, call.flaky, call.fails),
                                 call.reg, call.val, call.n),
                    "i2cwritebulk")
    /\ pc' = pc

\* idt24x_probe with a settings property, up to the write of the image:
\* err = i2cwritebulk(client, regmap, 0, settings, ARRAY_SIZE(settings)),
\* and attach fails if it fails.
ProbeSettings ==
    /\ call.fn = "settings"
    /\ BulkReturned(i2cwritebulk(NewBulkBus(hw, call.flaky, call.fails),
                                 0, call.val, NUM_CONFIG_REGISTERS),
                    "probe")
    /\ pc' = IF ret' # 0 THEN "failed" ELSE "settings_written"

NextBulk == BulkCall \/ ProbeSettings

SpecBulk == InitBulk /\ [][NextBulk]_vars

----------------------------------------------------------------------------
(* Two transactions on one device: a set-rate call and the re-apply of a   *)
(* post-change notification, each taking one step at a time                *)

\* The steps of idt24x_update_device on data d, in the order of the code:
\* the eight writes for the VCO and Q0, then for every output the divider
\* writes if it has a requested frequency (outputs 1..3 only) and the two
\* writes of idt24x_enable_output.
RECURSIVE UpdateSteps(_, _)
UpdateSteps(d, x) ==
    IF x > 3 THEN <<>>
    ELSE (IF x >= 1 /\ d.frequencies[x] # 0
          THEN [i \in 1..7 |-> [part |-> "out", x |-> x, i |-> i]]
          ELSE <<>>)
         \o << [part |-> "oe", x |-> x], [part |-> "dis", x |-> x] >>
         \o UpdateSteps(d, x + 1)

UpdateSchedule(d) ==
    [i \in 1..8 |-> [part |-> "vco", x |-> 0, i |-> i]] \o UpdateSteps(d, 0)

\* The data and the write of step st on data d with the dividers dv of the
\* transaction: a masked write takes the shadow of that moment, and the
\* first write of idt24x_enable_output comes after the update of both
\* shadows.
StepWrite(d, dv, st) ==
    CASE st.part = "vco" ->
            [data |-> d, w |-> VcoWrites(d, dv)[st.i]]
      [] st.part = "out" ->
            [data |-> d,
             w |-> OutputWrites(d, dv, st.x, idt24x_get_offsets(st.x))[st.i]]
      [] st.part = "oe" ->
            [data |-> EnableShadows(d, idt24x_get_offsets(st.x),
                                    d.frequencies[st.x] # 0),
             w |-> [reg |-> IDT24x_REG_OUTEN,
                    val |-> EnableShadows(d, idt24x_get_offsets(st.x),
                                d.frequencies[st.x] # 0).regOUTENx]]
      [] st.part = "dis" ->
            [data |-> d,
             w |-> [reg |-> IDT24x_REG_Q_DIS, val |-> d.regQxDIS]]

\* A transaction that has not begun.
Idle == [at |-> "idle", k |-> 0, dv |-> NoDivs]

\* The rate output Q2 has before the two transactions, the rates requested
\* of it, and the new rates of the upstream clock.
RaceRate0 == 100000000

RaceRates == {125000000, 156250000}

RaceClkRates == {W(38880000), W(40000000)}

\* Nobody serializes the callers: each transaction may take a step at any
\* time.
MayStep_NoLock(c, other) == TRUE

\* With the callers serialized (c.serialized), a transaction takes a step
\* only while the other has not begun or has ended.
MayStep(c, other) == c.serialized => other.at \in {"idle", "done"}

\* The device before the two transactions: attached with the upstream clock
\* at 25 MHz on a chip with registers h, and output Q2 set to RaceRate0.
RaceStart(h) ==
    idt24x_set_rate(idt24x_probe([input_clk |-> TRUE, clk_rate |-> W(25000000),
                                  xtal_prop |-> FALSE, xtal_freq |-> <<0, 0>>],
                                 h, 0).data,
                    RaceRate0, NewBus(h, {}))

InitRace ==
    /\ pc = "attached"
    /\ dt = [input_clk |-> TRUE, clk_rate |-> W(25000000),
             xtal_prop |-> FALSE, xtal_freq |-> <<0, 0>>]
    /\ \E h \in HwResets :
          /\ data = RaceStart(h).data
          /\ hw = RaceStart(h).bus.hw
    /\ divs = NoDivs
    /\ calc = NoCalc
    /\ ret = 0
    /\ wlog = <<>>
    /\ rlog = <<>>
    /\ \E rate \in RaceRates, new_rate \in RaceClkRates, b \in BOOLEAN :
          call = [fn |-> "race", serialized |-> b, rate |-> rate,
                  new_rate |-> new_rate, data0 |-> data, hw0 |-> hw,
                  set |-> Idle, post |-> Idle]

\* The write a transaction t makes next on data d.
NextWrite(t, d) == StepWrite(d, t.dv, UpdateSchedule(d)[t.k])

\* The transaction t after its next step on data d: after the calculation
\* it holds the dividers, after its last write it has ended.
TransactionAfter(t, d) ==
    IF t.at = "stored"
    THEN [at |-> "writing", k |-> 1, dv |-> idt24x_calc_divs(d).divs]
    ELSE IF t.k = Len(UpdateSchedule(d)) THEN [t EXCEPT !.at = "done"]
    ELSE [t EXCEPT !.k = t.k + 1]

\* One step of a transaction t that has stored its input: first
\* idt24x_set_frequency up to the end of idt24x_calc_divs, then the writes
\* of idt24x_update_device one by one.  (Every write succeeds, and the
\* frequency and the reference are not zero.)
TransactionStep(t) ==
    IF t.at = "stored"
    THEN /\ divs' = idt24x_calc_divs(data).divs
         /\ calc' = idt24x_calc_divs(data).calc
         /\ UNCHANGED <<data, hw>>
    ELSE /\ data' = NextWrite(t, data).data
         /\ hw' = [hw EXCEPT ![NextWrite(t, data).w.reg] =
                                 NextWrite(t, data).w.val]
         /\ UNCHANGED <<divs, calc>>

\* A step of idt24x_set_rate(hw, rate, parent_rate): the rate, within the
\* limits, is stored, then the transaction runs.
RaceSetRate ==
    /\ call.fn = "race"
    /\ MayStep(call, call.post)
    /\ call.set.at # "done"
    /\ IF call.set.at = "idle"
       THEN /\ data' = [data EXCEPT
                          !.frequencies[idt24x_get_output_num] = call.rate]
            /\ call' = [call EXCEPT !.set.at = "stored"]
            /\ UNCHANGED <<hw, divs, calc>>
       ELSE /\ TransactionStep(call.set)
            /\ call' = [call EXCEPT !.set = TransactionAfter(@, data)]
    /\ UNCHANGED <<pc, dt, ret, wlog, rlog>>

\* A step of idt24x_clk_notifier_cb for POST_RATE_CHANGE: the new rate is
\* stored as the reference, then the transaction runs.
RaceNotify ==
    /\ call.fn = "race"
    /\ MayStep(call, call.set)
    /\ call.post.at # "done"
    /\ IF call.post.at = "idle"
       THEN /\ data' = [data EXCEPT !.input_clk_freq = U32(call.new_rate)]
            /\ call' = [call EXCEPT !.post.at = "stored"]
            /\ UNCHANGED <<hw, divs, calc>>
       ELSE /\ TransactionStep(call.post)
            /\ call' = [call EXCEPT !.post = TransactionAfter(@, data)]
    /\ UNCHANGED <<pc, dt, ret, wlog, rlog>>

NextRace == RaceSetRate \/ RaceNotify

SpecRace == InitRace /\ [][NextRace]_vars

----------------------------------------------------------------------------
(* Attach step by step, with notifications of the upstream clock between   *)
(* the steps                                                               *)

\* At most this many notifications arrive while idt24x_probe runs.
MaxEarly == 2

\* The platform has an upstream clock; idt24x_probe has not begun.
InitAttach ==
    /\ pc = "init"
    /\ dt \in {t \in DtConfigs : t.input_clk}
    /\ data = ZeroData
    /\ hw \in HwResets
    /\ divs = NoDivs
    /\ calc = NoCalc
    /\ ret = 0
    /\ wlog = <<>>
    /\ rlog = <<>>
    /\ call = [fn |-> "none", n |-> 0]

\* idt24x_probe up to clk_notifier_register: the data is allocated, the
\* rate of the upstream clock is stored and the notifier is on its chain.
ProbeGetClock ==
    /\ pc = "init"
    /\ data' = [ZeroData EXCEPT !.min_freq = IDT24x_MIN_FREQ,
                                !.max_freq = IDT24x_MAX_FREQ,
                                !.input_clk_freq = U32(dt.clk_rate)]
    /\ pc' = "registered"
    /\ UNCHANGED <<dt, hw, divs, calc, ret, wlog, call, rlog>>

\* idt24x_probe from there to devm_regmap_init_i2c: data->regmap is set.
ProbeRegmap ==
    /\ pc = "registered"
    /\ pc' = "regmap"
    /\ UNCHANGED <<dt, data, hw, divs, calc, ret, wlog, call, rlog>>

\* idt24x_probe from there to its end, without a settings property:
\* idt24x_read_from_hw on the data as it is by then.
ProbeLoad(rfail) ==
    /\ pc = "regmap"
    /\ rfail <= Len(ShadowReads)
    /\ data' = idt24x_read_from_hw(data, hw, rfail).data
    /\ rlog' = idt24x_read_from_hw(data, hw, rfail).reads
    /\ ret' = idt24x_read_from_hw(data, hw, rfail).err
    /\ pc' = IF ret' = 0 THEN "attached" ELSE "failed"
    /\ call' = [fn |-> "probe", n |-> call.n]
    /\ UNCHANGED <<dt, hw, divs, calc, wlog>>

\* A notification of the upstream clock while idt24x_probe is between two
\* of its steps, every write succeeding.  Before data->regmap is set a
\* write goes through a null register map: the callback faults there.
EarlyNotify(event, new_rate) ==
    /\ pc \in {"registered", "regmap"}
    /\ call.n < MaxEarly
    /\ LET res == idt24x_clk_notifier_cb(data, event, new_rate,
                                         NewBus(hw, {}))
       IN  /\ data' = res.data
           /\ divs' = res.divs
           /\ calc' = res.calc
           /\ call' = [fn |-> "notifier", n |-> call.n + 1, event |-> event,
                       new_rate |-> new_rate, fail |-> {}]
           /\ IF pc = "registered" /\ res.bus.log # <<>>
              THEN /\ pc' = "fault"
                   /\ UNCHANGED <<hw, wlog, ret>>
              ELSE /\ pc' = pc
                   /\ hw' = res.bus.hw
                   /\ wlog' = res.bus.log
                   /\ ret' = res.err
    /\ UNCHANGED <<dt, rlog>>

NextAttach ==
    \/ ProbeGetClock
    \/ ProbeRegmap
    \/ \E rfail \in 0..Len(ShadowReads) : ProbeLoad(rfail)
    \/ \E event \in Events, new_rate \in ClkRates : EarlyNotify(event, new_rate)

SpecAttach == InitAttach /\ [][NextAttach]_vars

----------------------------------------------------------------------------
(* Notifications of any 32-bit rate to an attached device whose reference  *)
(* is the upstream clock                                                   *)

\* New rates of the upstream clock: zero, 1, 12.5 and 25 MHz, 2^31 - 1,
\* 2^31, 2^31 + 12.5 MHz, 2^32 - 2 and 2^32 - 1 Hz.
RefRates ==
    {<<0, 0>>, W(1000000), W(12500000), W(25000000), <<32767, 65535>>,
     <<32768, 0>>, <<32958, 48160>>, <<65535, 65534>>, <<65535, 65535>>}

\* The device after idt24x_probe with an upstream clock at 25 MHz and a
\* chip at zero, and after set-rate calls that left f as the rate of Q2.
RefData ==
    {[idt24x_probe([input_clk |-> TRUE, clk_rate |-> W(25000000),
                    xtal_prop |-> FALSE, xtal_freq |-> <<0, 0>>],
                   [a \in Regs |-> 0], 0).data
        EXCEPT !.frequencies[2] = f] : f \in CalcFreqs}

InitRef ==
    /\ pc = "attached"
    /\ dt = [input_clk |-> TRUE, clk_rate |-> W(25000000),
             xtal_prop |-> FALSE, xtal_freq |-> <<0, 0>>]
    /\ data \in RefData
    /\ hw = [a \in Regs |-> 0]
    /\ divs = NoDivs
    /\ calc = NoCalc
    /\ ret = 0
    /\ wlog = <<>>
    /\ rlog = <<>>
    /\ call = [fn |-> "none", n |-> 0]

\* idt24x_calc_divs where the division by a zero pfd does not fault and
\* gives a zero quotient and the dividend as remainder.
ZeroQuotient(c) == [c EXCEPT !.trap = FALSE, !.calc.rem = c.calc.vco]

\* The state after the callback has returned res.
RefReturned(res, new_rate) ==
    /\ data' = res.data
    /\ hw' = res.bus.hw
    /\ wlog' = res.bus.log
    /\ divs' = res.divs
    /\ calc' = res.calc
    /\ ret' = NOTIFY_OK
    /\ call' = [fn |-> "notifier", n |-> call.n + 1,
                event |-> "POST_RATE_CHANGE", new_rate |-> new_rate,
                fail |-> {}]
    /\ UNCHANGED <<dt, rlog>>

\* POST_RATE_CHANGE with new_rate, every write succeeding.  A division by a
\* zero pfd is undefined: the callback faults there, or the division gives
\* zero and the callback goes on.
RefNotify(new_rate) ==
    /\ pc = "attached"
    /\ call.n < 1
    /\ \/ /\ ~idt24x_clk_notifier_cb(data, "POST_RATE_CHANGE", new_rate,
                                     NewBus(hw, {})).trap
          /\ pc' = pc
          /\ RefReturned(idt24x_clk_notifier_cb(data, "POST_RATE_CHANGE",
                                                new_rate, NewBus(hw, {})),
                         new_rate)
       \/ /\ idt24x_clk_notifier_cb(data, "POST_RATE_CHANGE", new_rate,
                                    NewBus(hw, {})).trap
          /\ pc' = "fault"
          /\ RefReturned(idt24x_clk_notifier_cb(data, "POST_RATE_CHANGE",
                                                new_rate, NewBus(hw, {})),
                         new_rate)
       \/ /\ idt24x_clk_notifier_cb(data, "POST_RATE_CHANGE", new_rate,
                                    NewBus(hw, {})).trap
          /\ pc' = pc
          /\ RefReturned(
                 UpdateWithDivs(
                     [data EXCEPT !.input_clk_freq = U32(new_rate)],
                     NewBus(hw, {}),
                     ZeroQuotient(idt24x_calc_divs(
                         [data EXCEPT !.input_clk_freq = U32(new_rate)]))),
                 new_rate)

NextRef == \E new_rate \in RefRates : RefNotify(new_rate)

SpecRef == InitRef /\ [][NextRef]_vars

----------------------------------------------------------------------------
(* The divider search at the rates where a divider comes into or goes out  *)
(* of the VCO range                                                        *)

\* Both ends of [min_freq, max_freq] and, for the even dividers 10 to 24
\* and 30, 100, 1000, 3000, 3998 and 4000, the rates next to
\* IDT24x_VCO_MIN / divider and IDT24x_VCO_MAX / divider.
WalkFreqs ==
    {1000000, 1000001, 1000002, 1000501, 1000502, 1333334, 1333335,
     2999996, 2999997, 2999998, 4000004, 4000005, 29999969, 29999970,
     29999971, 40000040, 40000041, 99999899, 99999900, 99999901,
     124999874, 124999875, 124999876, 133333466, 133333467, 136363499,
     136363500, 136363501, 149999849, 149999850, 149999851, 166666499,
     166666500, 166666501, 166666833, 166666834, 181818363, 181818364,
     187499811, 187499812, 187499813, 200000200, 200000201, 214285499,
     214285500, 214285501, 222222444, 222222445, 249999749, 249999750,
     249999751, 250000250, 250000251, 285714571, 285714572, 299999699,
     299999700, 299999701, 299999999, 300000000}

\* The device data once idt24x_set_rate has stored a rate that passed its
\* range check, the reference being an upstream clock.
WalkData(r) ==
    {[ZeroData EXCEPT !.min_freq = IDT24x_MIN_FREQ,
                      !.max_freq = IDT24x_MAX_FREQ,
                      !.frequencies[2] = f,
                      !.input_clk_freq = r] : f \in WalkFreqs}

InitWalk ==
    /\ pc = "attached"
    /\ dt \in {[input_clk |-> TRUE, clk_rate |-> r, xtal_prop |-> FALSE,
                xtal_freq |-> <<0, 0>>] : r \in ClkRates}
    /\ data \in WalkData(dt.clk_rate)
    /\ hw = [a \in Regs |-> 0]
    /\ divs = NoDivs
    /\ calc = NoCalc
    /\ ret = 0
    /\ wlog = <<>>
    /\ rlog = <<>>
    /\ call = NoCall

SpecWalk == InitWalk /\ [][NextCalc]_vars

----------------------------------------------------------------------------
(* clk-userspace: the sysfs attribute 'enable' of a userspace clock        *)

EBUSY == 16

\* The digits kstrtoul accepts, with their values.
DigitValue(ch) ==
    CASE ch = "0" -> 0 [] ch = "1" -> 1 [] ch = "2" -> 2 [] ch = "7" -> 7
      [] ch = "9" -> 9 [] ch = "a" -> 10 [] OTHER -> 99

\* The value of the digits s in the given base after the value acc of the
\* digits before them, or -1 at a character that is no digit of the base.
RECURSIVE ParseDigits(_, _, _)
ParseDigits(s, base, acc) ==
    IF s = <<>> THEN acc
    ELSE IF DigitValue(Head(s)) >= base THEN -1
    ELSE ParseDigits(Tail(s), base, acc * base + DigitValue(Head(s)))

\* The buffer without the newline kstrtoul allows at its end.
StripNewline(s) ==
    IF s # <<>> /\ s[Len(s)] = "\n" THEN SubSeq(s, 1, Len(s) - 1) ELSE s

\* kstrtoul(buf, 0, &res) on the stripped buffer s: base 16 after "0x"
\* before a hex digit, base 8 after another leading "0", else base 10.
ParseStripped(s) ==
    IF s = <<>> THEN -1
    ELSE IF Len(s) >= 3 /\ s[1] = "0" /\ s[2] = "x" /\ DigitValue(s[3]) < 16
    THEN ParseDigits(SubSeq(s, 3, Len(s)), 16, 0)
    ELSE IF s[1] = "0" THEN ParseDigits(s, 8, 0)
    ELSE ParseDigits(s, 10, 0)

\* kstrtoul(buf, 0, &res): the error and the value.
kstrtoul(buf) ==
    IF ParseStripped(StripNewline(buf)) < 0 THEN [err |-> -EINVAL, val |-> 0]
    ELSE [err |-> 0, val |-> ParseStripped(StripNewline(buf))]

\* The clock framework, as far as this driver sees it: the enable count the
\* driver holds on the clock, and the calls made, in order.
NoClk == [enable_count |-> 0, calls |-> <<>>]

\* clk_prepare_enable(clk): the count goes up unless the call fails.
clk_prepare_enable(clk, ok) ==
    [clk |-> [enable_count |-> clk.enable_count + (IF ok THEN 1 ELSE 0),
              calls |-> Append(clk.calls,
                               [op |-> "clk_prepare_enable",
                                err |-> IF ok THEN 0 ELSE -EIO])],
     ret |-> IF ok THEN 0 ELSE -EIO]

\* clk_disable_unprepare(clk).
clk_disable_unprepare(clk) ==
    [enable_count |-> clk.enable_count - 1,
     calls |-> Append(clk.calls, [op |-> "clk_disable_unprepare", err |-> 0])]

\* enable_store after the call to the clock framework returned r for the
\* new state enable.
StoreEnabled(d, r, enable, count) ==
    IF r.ret # 0 THEN [data |-> d, clk |-> r.clk, ret |-> -EBUSY]
    ELSE [data |-> [d EXCEPT !.enabled = enable], clk |-> r.clk,
          ret |-> count]

\* enable_store from enable = !!enable on: the framework is called to
\* enable or to disable, ret being 0 after kstrtoul.
CallFramework(d, clk, enable, count, ok) ==
    IF enable = 1
    THEN StoreEnabled(d, clk_prepare_enable(clk, ok), enable, count)
    ELSE StoreEnabled(d, [clk |-> clk_disable_unprepare(clk), ret |-> 0],
                      enable, count)

\* An enable_store that calls the framework also when the state written is
\* the present one.
enable_store_NoRepeatCheck(d, clk, buf, ok) ==
    IF kstrtoul(buf).err # 0 THEN [data |-> d, clk |-> clk, ret |-> -EINVAL]
    ELSE CallFramework(d, clk, IF kstrtoul(buf).val # 0 THEN 1 ELSE 0,
                       Len(buf), ok)

\* enable_store(dev, attr, buf, count), count = Len(buf); ok tells whether
\* clk_prepare_enable succeeds if it is called.
enable_store(d, clk, buf, ok) ==
    IF kstrtoul(buf).err # 0 THEN [data |-> d, clk |-> clk, ret |-> -EINVAL]
    ELSE IF (IF kstrtoul(buf).val # 0 THEN 1 ELSE 0) = d.enabled
    THEN [data |-> d, clk |-> clk, ret |-> Len(buf)]
    ELSE CallFramework(d, clk, IF kstrtoul(buf).val # 0 THEN 1 ELSE 0,
                       Len(buf), ok)

\* enable_show(dev, attr, buf): scnprintf(buf, PAGE_SIZE, "%u\n", enabled)
\* for the one-digit values of enabled.
enable_show(d) ==
    << CASE d.enabled = 0 -> "0" [] d.enabled = 1 -> "1" [] OTHER -> "?",
       "\n" >>

\* At most this many writes are made to the attribute.
MaxStores == 4

\* The buffers written to the attribute.
StoreBufs ==
    { <<"0">>, <<"1">>, <<"1", "\n">>, <<"0", "\n">>, <<"2">>, <<"0", "x", "a">>,
      <<"0", "9">>, <<"x">>, <<>> }

\* usclk_setup: kzalloc leaves enabled 0, and no call has been made.
InitUsclk ==
    /\ pc = "usclk"
    /\ dt = [input_clk |-> FALSE, clk_rate |-> <<0, 0>>, xtal_prop |-> FALSE,
             xtal_freq |-> <<0, 0>>]
    /\ data = [clk |-> "clk", enabled |-> 0]
    /\ hw = NoClk
    /\ divs = NoDivs
    /\ calc = NoCalc
    /\ ret = 0
    /\ wlog = <<>>
    /\ rlog = <<>>
    /\ call = [fn |-> "usclk_setup", n |-> 0]

\* A write of buf to the attribute; call keeps the state before it.
EnableStore(buf, ok) ==
    /\ pc = "usclk"
    /\ call.n < MaxStores
    /\ data' = enable_store(data, hw, buf, ok).data
    /\ hw' = enable_store(data, hw, buf, ok).clk
    /\ ret' = enable_store(data, hw, buf, ok).ret
    /\ call' = [fn |-> "enable_store", n |-> call.n + 1, buf |-> buf,
                was |-> data.enabled, calls |-> Len(hw.calls)]
    /\ UNCHANGED <<pc, dt, divs, calc, wlog, rlog>>

\* A read of the attribute: the text is kept in wlog.
EnableShow ==
    /\ pc = "usclk"
    /\ wlog' = enable_show(data)
    /\ ret' = Len(enable_show(data))
    /\ call' = [fn |-> "enable_show", n |-> call.n]
    /\ UNCHANGED <<pc, dt, data, hw, divs, calc, rlog>>

NextUsclk ==
    \/ \E buf \in StoreBufs, ok \in BOOLEAN : EnableStore(buf, ok)
    \/ EnableShow

SpecUsclk == InitUsclk /\ [][NextUsclk]_vars

----------------------------------------------------------------------------
(* Masked write on its own: the arguments of i2cwritewithmask are drawn in *)
(* the initial state and one action applies it.                            *)

\* Shadow bytes and field values; the masks are all non-zero bytes.
MaskOriginals == {0, 60, 90, 165, 195, 255}

MaskVals == {0, 1, 2, 3, 21, 31, 170, 255}

MaskArgs ==
    {[fn |-> "args", reg |-> IDT24x_REG_DSMFRAC_20_16, val |-> v,
      original |-> o, mask |-> m] :
        v \in MaskVals, o \in MaskOriginals, m \in 1..255}

InitMask ==
    /\ pc = "attached"
    /\ dt = [input_clk |-> FALSE, clk_rate |-> <<0, 0>>, xtal_prop |-> FALSE,
             xtal_freq |-> <<0, 0>>]
    /\ data = ZeroData
    /\ hw = [a \in Regs |-> 0]
    /\ divs = NoDivs
    /\ calc = NoCalc
    /\ ret = 0
    /\ wlog = <<>>
    /\ rlog = <<>>
    /\ call \in MaskArgs

MaskedWriteCall ==
    /\ call.fn = "args"
    /\ \E fail \in FailPlans(1) :
          LET r == i2cwritewithmask(NewBus(hw, fail), call.reg, call.val,
                                    call.original, call.mask)
          IN  /\ hw' = r.bus.hw
              /\ wlog' = r.bus.log
              /\ ret' = r.err
    /\ call' = [call EXCEPT !.fn = "i2cwritewithmask"]
    /\ UNCHANGED <<pc, dt, data, divs, calc, rlog>>

NextMask == MaskedWriteCall

SpecMask == InitMask /\ [][NextMask]_vars

----------------------------------------------------------------------------
(* bits_to_shift on its own: the mask is drawn in the initial state and    *)
(* one action applies the function to it.                                  *)

\* Every value of a u8 mask, zero included.
ShiftMasks == 0..255

InitShift ==
    /\ pc = "attached"
    /\ dt = [input_clk |-> FALSE, clk_rate |-> <<0, 0>>, xtal_prop |-> FALSE,
             xtal_freq |-> <<0, 0>>]
    /\ data = ZeroData
    /\ hw = [a \in Regs |-> 0]
    /\ divs = NoDivs
    /\ calc = NoCalc
    /\ ret = 0
    /\ wlog = <<>>
    /\ rlog = <<>>
    /\ call \in {[fn |-> "none", mask |-> m] : m \in ShiftMasks}

ShiftCall ==
    /\ call.fn = "none"
    /\ ret' = bits_to_shift(call.mask)
    /\ call' = [fn |-> "bits_to_shift", mask |-> call.mask]
    /\ UNCHANGED <<pc, dt, data, hw, divs, calc, wlog, rlog>>

NextShift == ShiftCall

SpecShift == InitShift /\ [][NextShift]_vars

----------------------------------------------------------------------------
(* idt24x_enable_output on its own: the enable and disable shadows are     *)
(* drawn in the initial state and one action applies it to any output.     *)

\* Every combination of the four output bits, and bytes with high bits set.
ShadowBytes == (0..15) \cup {165, 240, 255}

InitEnable ==
    /\ pc = "attached"
    /\ dt = [input_clk |-> FALSE, clk_rate |-> <<0, 0>>, xtal_prop |-> FALSE,
             xtal_freq |-> <<0, 0>>]
    /\ data \in {[ZeroData EXCEPT !.min_freq = IDT24x_MIN_FREQ,
                                  !.max_freq = IDT24x_MAX_FREQ,
                                  !.regOUTENx = a, !.regQxDIS = b] :
                    a \in ShadowBytes, b \in ShadowBytes}
    /\ hw = [a \in Regs |-> IF a = IDT24x_REG_OUTEN THEN data.regOUTENx
                            ELSE IF a = IDT24x_REG_Q_DIS THEN data.regQxDIS
                            ELSE 0]
    /\ divs = NoDivs
    /\ calc = NoCalc
    /\ ret = 0
    /\ wlog = <<>>
    /\ rlog = <<>>
    /\ call = NoCall

EnableOutputCall(output, enable) ==
    /\ call = NoCall
    /\ \E fail \in FailPlans(2) :
          LET r == idt24x_enable_output(data, output, enable,
                                        NewBus(hw, fail))
          IN  /\ data' = r.data
              /\ hw' = r.bus.hw
              /\ wlog' = r.bus.log
              /\ ret' = r.err
              /\ call' = [fn |-> "enable_output", output |-> output,
                          enable |-> enable, fail |-> fail]
    /\ UNCHANGED <<pc, dt, divs, calc, rlog>>

NextEnable == \E output \in 0..3, enable \in BOOLEAN :
                  EnableOutputCall(output, enable)

SpecEnable == InitEnable /\ [][NextEnable]_vars

----------------------------------------------------------------------------
(* Exact arithmetic for stating properties: a natural number below 2^64 as *)
(* four base-2^16 limbs, least significant first.                          *)

\* a * k + b limb by limb, for k < 2^15.
XMulAdd(a, k, b) ==
    LET p1 == a[1] * k + b[1]
        p2 == a[2] * k + b[2] + (p1 \div 65536)
        p3 == a[3] * k + b[3] + (p2 \div 65536)
        p4 == a[4] * k + b[4] + (p3 \div 65536)
    IN  <<p1 % 65536, p2 % 65536, p3 % 65536, p4>>

XZero == <<0, 0, 0, 0>>

XMul(a, k) == XMulAdd(a, k, XZero)

XAdd(a, b) == XMulAdd(a, 1, b)

\* a * n for n < 2^27.
XMulNat(a, n) == XMulAdd(XMul(a, n \div 4096), 4096, XMul(a, n % 4096))

\* a * 2^21.
XShl21(a) == XMul(XMul(a, 2048), 1024)

XLt(a, b) ==
    \/ a[4] < b[4]
    \/ a[4] = b[4] /\ a[3] < b[3]
    \/ a[4] = b[4] /\ a[3] = b[3] /\ a[2] < b[2]
    \/ a[4] = b[4] /\ a[3] = b[3] /\ a[2] = b[2] /\ a[1] < b[1]

XLe(a, b) == a = b \/ XLt(a, b)

\* The two-limb value w (its high limb may exceed 2^16) as four limbs.
XOfW(w) == <<w[2], w[1] % 65536, w[1] \div 65536, 0>>

\* Bit i of x and the number of zero bits below the lowest set bit of a
\* non-zero byte m.
BitOf(x, i) == (x \div (2 ^ i)) % 2

TrailingZeros(m) == CHOOSE k \in 0..7 : BitOf(m, k) = 1 /\ m % (2 ^ k) = 0

----------------------------------------------------------------------------
(* Properties of the masked write                                          *)

\* C1: for every shadow byte S, non-zero mask M and field value V, the
\* masked write hands the bus one write of the register whose value has, in
\* every bit of M, the bit of V shifted left by the trailing zeros of M
\* and, in every other bit, the bit of S:
\* ((V << tz(M)) & M) | (S & ~M).
C1_MaskedWriteValue ==
    call.fn = "i2cwritewithmask" =>
        /\ Len(wlog) = 1
        /\ wlog[1].reg = call.reg
        /\ wlog[1].val \in 0..255
        /\ \A i \in 0..7 :
              BitOf(wlog[1].val, i) =
                  IF BitOf(call.mask, i) = 1
                  THEN IF i >= TrailingZeros(call.mask)
                       THEN BitOf(call.val, i - TrailingZeros(call.mask))
                       ELSE 0
                  ELSE BitOf(call.original, i)

\* A masked write of field value 3 under mask 0x0C over shadow 0xA5 has
\* put 0xAD into the register.
C1_Witness ==
    /\ call.fn = "i2cwritewithmask"
    /\ call.mask = 12 /\ call.val = 3 /\ call.original = 165
    /\ ret = 0
    /\ hw[call.reg] = 173

\* C2: every masked write of idt24x_update_device takes the bits outside
\* the mask from the shadow of the register it writes.
MaskedRegs ==
    {IDT24x_REG_DSM_INT_8, IDT24x_REG_DSMFRAC_20_16, IDT24x_REG_NS1_Q0}
    \cup {idt24x_get_offsets(x).n_17_16_offset : x \in 1..3}
    \cup {idt24x_get_offsets(x).nfrac_27_24_offset : x \in 1..3}

MaskOfReg(reg) ==
    CASE reg = IDT24x_REG_DSM_INT_8 -> IDT24x_REG_DSM_INT_8_MASK
      [] reg = IDT24x_REG_DSMFRAC_20_16 -> IDT24x_REG_DSMFRAC_20_16_MASK
      [] reg = IDT24x_REG_NS1_Q0 -> IDT24x_REG_NS1_Q0_MASK
      [] reg \in {idt24x_get_offsets(x).n_17_16_offset : x \in 1..3} ->
            IDT24x_REG_N_Q1_17_16_MASK
      [] OTHER -> IDT24x_REG_NFRAC_Q1_27_24_MASK

\* The shadow field of struct clk_idt24x that stands for register reg.
ShadowOfReg(d, reg) ==
    CASE reg = IDT24x_REG_DSM_INT_8 -> d.regDSM_INT_8
      [] reg = IDT24x_REG_DSMFRAC_20_16 -> d.regDSMFRAC_20_16
      [] reg = IDT24x_REG_OUTEN -> d.regOUTENx
      [] reg = IDT24x_REG_Q_DIS -> d.regQxDIS
      [] reg = IDT24x_REG_NS1_Q0 -> d.regNS1_Q0
      [] reg = IDT24x_REG_N_Q1_17_16 -> d.regN_Qx_17_16[0]
      [] reg = IDT24x_REG_N_Q2_17_16 -> d.regN_Qx_17_16[1]
      [] reg = IDT24x_REG_N_Q3_17_16 -> d.regN_Qx_17_16[2]
      [] reg = IDT24x_REG_NFRAC_Q1_27_24 -> d.regNFRAC_Qx_27_24[0]
      [] reg = IDT24x_REG_NFRAC_Q2_27_24 -> d.regNFRAC_Qx_27_24[1]
      [] reg = IDT24x_REG_NFRAC_Q3_27_24 -> d.regNFRAC_Qx_27_24[2]

C2_MaskedWritesKeepOwnShadow ==
    call.fn \in {"set_rate", "notifier"} =>
        \A k \in 1..Len(wlog) :
            wlog[k].reg \in MaskedRegs =>
                BitClear(wlog[k].val, MaskOfReg(wlog[k].reg)) =
                    BitClear(ShadowOfReg(data, wlog[k].reg),
                             MaskOfReg(wlog[k].reg))

\* C3: while the device is attached, each shadow byte is the last value
\* the driver successfully wrote to its register, or the value the register
\* had at attach if none was written.  Only the driver writes the chip, so
\* that value is the present content of the register.
ShadowRegs == MaskedRegs \cup {IDT24x_REG_OUTEN, IDT24x_REG_Q_DIS}

C3_ShadowsFollowChip ==
    pc = "attached" => \A reg \in ShadowRegs : ShadowOfReg(data, reg) = hw[reg]

----------------------------------------------------------------------------
(* Properties of idt24x_enable_output                                      *)

\* C4: enabling or disabling output i leaves the enable bit and the disable
\* bit of every other output as they were, in the shadows and in every
\* value written to the chip.
C4_OtherOutputsUnchanged ==
    [][call'.fn = "enable_output" =>
        \A j \in (0..3) \ {call'.output} :
            /\ BitOf(data'.regOUTENx, j) = BitOf(data.regOUTENx, j)
            /\ BitOf(data'.regQxDIS, j) = BitOf(data.regQxDIS, j)
            /\ \A k \in 1..Len(wlog') :
                  BitOf(wlog'[k].val, j) =
                      BitOf(ShadowOfReg(data, wlog'[k].reg), j)]_vars

\* Output 2 has been enabled with outputs 0, 1 and 3 enabled before: all
\* four enable bits are set in the shadow and on the chip.
C4_Witness ==
    /\ call.fn = "enable_output"
    /\ call.output = 2 /\ call.enable
    /\ ret = 0
    /\ data.regOUTENx = 15
    /\ hw[IDT24x_REG_OUTEN] = 15
    /\ Len(wlog) = 2

----------------------------------------------------------------------------
(* Properties of the divider calculation                                   *)

\* The requested rate of output Q2 and its product, not truncated, with
\* the chosen divider and with a candidate divider k.
Freq == data.frequencies[2]

ExactVco == WMul(W(Freq), calc.div)

CandVco(k) == WMul(W(Freq), k)

CalcOk == call.fn = "calc_divs" /\ ret = 0

\* C5: the divider calculation returns a divider whose VCO frequency,
\* rate times divider, is in [2,999,997,000, 4,000,004,000], or it
\* returns the out-of-range error.
C5_VcoWithinRange ==
    call.fn = "calc_divs" =>
        \/ ret = -EINVAL
        \/ /\ ret = 0
           /\ WLe(IDT24x_VCO_MIN, ExactVco)
           /\ WLe(ExactVco, IDT24x_VCO_MAX)

\* A calculation has succeeded with a VCO frequency above 3.5 GHz.
C5_Witness == CalcOk /\ WLt(IDT24x_VCO_OPT, ExactVco)

\* C6: the divider of a successful calculation is even and at least 6.
C6_DividerEvenAtLeastSix ==
    CalcOk => calc.div % 2 = 0 /\ calc.div >= 6

\* A calculation has succeeded with divider 10, the smallest that any rate
\* up to 300 MHz can get.
C6_Witness == CalcOk /\ calc.div = 10 /\ Freq = IDT24x_MAX_FREQ

\* The even dividers from 6 on whose VCO frequency is in range, and those
\* of them at or below 3.5 GHz.  No divider above 4,000,004 / (rate / 1000)
\* is in range.
Candidates ==
    {k \in 6..(4000004 \div (Freq \div 1000)) :
        k % 2 = 0 /\ WLe(IDT24x_VCO_MIN, CandVco(k))
                  /\ WLe(CandVco(k), IDT24x_VCO_MAX)}

LowCandidates == {k \in Candidates : WLe(CandVco(k), IDT24x_VCO_OPT)}

\* C7: of the even dividers in range, the calculation takes the one with
\* the highest VCO frequency at or below 3,500,000,000 if there is one,
\* else the one with the highest VCO frequency.
C7_TieBreak ==
    CalcOk =>
        /\ calc.div \in Candidates
        /\ IF LowCandidates # {}
           THEN /\ calc.div \in LowCandidates
                /\ \A k \in LowCandidates : WLe(CandVco(k), ExactVco)
           ELSE \A k \in Candidates : WLe(CandVco(k), ExactVco)

\* A calculation has chosen among candidates on both sides of 3.5 GHz,
\* taking neither the smallest nor the largest divider in range.
C7_Witness ==
    /\ CalcOk
    /\ \E k \in Candidates : k < calc.div
    /\ \E k \in Candidates \ LowCandidates : k > calc.div

\* C8: a request of 125,000,000 Hz on output Q2 with a 25,000,000 Hz
\* reference and the doubler enabled calculates divider 28, VCO
\* 3,500,000,000, dsmint 70 and dsmfrac 0.
C8_Request ==
    /\ call.fn = "set_rate"
    /\ call.rate = 125000000
    /\ W(25000000) \in {data.input_clk_freq, data.xtal_freq}
    /\ <<0, 0>> \in {data.input_clk_freq, data.xtal_freq}
    /\ ~data.doubler_disabled

C8_EndToEnd ==
    C8_Request =>
        /\ calc.div = 28
        /\ calc.vco = WMul(W(3500000), 1000)
        /\ divs.dsmint = 70
        /\ divs.dsmfrac = 0
        /\ divs.nint[1] = 14

\* The request has returned 0 and the chip holds dsmint 70 and the
\* divider of Q2.
C8_Witness ==
    /\ C8_Request
    /\ ret = 0
    /\ hw[IDT24x_REG_DSM_INT_7_0] = 70
    /\ hw[IDT24x_REG_N_Q2_7_0] = 14

\* The pfd, the exact VCO frequency and the VCO frequency times 2^21.
XPfd == XOfW(calc.pfd)

XVco == XOfW(ExactVco)

XVco21 == XShl21(XVco)

\* q is floor(VCO / pfd), and frac is floor((VCO mod pfd) * 2^21 / pfd)
\* for that q.
IsQuotient(q) ==
    /\ XLe(XMulNat(XPfd, q), XVco)
    /\ XLt(XVco, XAdd(XMulNat(XPfd, q), XPfd))

IsFloorFrac(q, frac) ==
    LET base == XShl21(XMulNat(XPfd, q)) IN
    /\ XLe(XAdd(base, XMulNat(XPfd, frac)), XVco21)
    /\ XLt(XVco21, XAdd(base, XMulNat(XPfd, frac + 1)))

\* frac is (VCO mod pfd) * 2^21 / pfd rounded to the nearest integer:
\* twice its distance from the exact value is at most 1.
IsRoundedFrac(q, frac) ==
    LET base == XShl21(XMulNat(XPfd, q))
        twice == XMul(XAdd(base, XMulNat(XPfd, frac)), 2)
    IN  /\ XLe(twice, XAdd(XMul(XVco21, 2), XPfd))
        /\ XLe(XMul(XVco21, 2), XAdd(twice, XPfd))

\* C9 as stated: dsmint is floor(VCO / pfd) and dsmfrac is
\* (VCO mod pfd) * 2^21 / pfd rounded to the nearest integer.
C9_AsStated ==
    CalcOk => IsQuotient(divs.dsmint)
              /\ IsRoundedFrac(divs.dsmint, divs.dsmfrac)

\* C9: dsmint is the low 16 bits of floor(VCO / pfd), which is that
\* quotient whenever it is below 2^16, and dsmfrac is
\* floor((VCO mod pfd) * 2^21 / pfd): the fraction is cut, not rounded.
\* (The quotients here are below 2^18.)
C9_FloorDividers ==
    CalcOk =>
        /\ divs.dsmint \in 0..65535
        /\ \E k \in 0..3 :
              /\ IsQuotient(divs.dsmint + 65536 * k)
              /\ IsFloorFrac(divs.dsmint + 65536 * k, divs.dsmfrac)

\* A calculation whose exact fraction lies above dsmfrac + 1/2: rounding
\* to nearest would have given dsmfrac + 1.
C9_Witness ==
    /\ CalcOk
    /\ IsQuotient(divs.dsmint)
    /\ IsFloorFrac(divs.dsmint, divs.dsmfrac)
    /\ ~IsRoundedFrac(divs.dsmint, divs.dsmfrac)

\* C10: after a successful calculation, dsmint * pfd + dsmfrac * pfd / 2^21
\* differs from the VCO frequency by less than pfd / 2^21.
C10_Reconstruction ==
    CalcOk =>
        LET rec == XAdd(XShl21(XMulNat(XPfd, divs.dsmint)),
                        XMulNat(XPfd, divs.dsmfrac))
        IN  /\ XLt(rec, XAdd(XVco21, XPfd))
            /\ XLt(XVco21, XAdd(rec, XPfd))

----------------------------------------------------------------------------
(* Reference, rate requests and errors                                     *)

\* The reference frequency: that of the upstream clock when it is not
\* zero, else that of the oscillator.
Reference ==
    IF data.input_clk_freq # <<0, 0>> THEN data.input_clk_freq
    ELSE data.xtal_freq

\* The doubler of the chip is enabled: bit 0 of register 0x6C is clear.
\* (The driver never writes this register.)
DoublerEnabled == hw[IDT24x_REG_DBL_DIS] % 2 = 0

\* C11: the pfd a calculation has used is twice the reference exactly when
\* the doubler of the chip is enabled, and the reference itself when it is
\* disabled, with the oscillator and with the upstream clock alike.
C11_PfdFollowsDoubler ==
    calc # NoCalc =>
        calc.pfd = WMul(Reference, IF DoublerEnabled THEN 2 ELSE 1)

\* C12: after a successful calculation the integer divider stored for
\* output Q2 is exactly half the selected divider, and its fractional
\* divider is 0.
C12_StoredHalfDivider ==
    CalcOk => /\ 2 * divs.nint[1] = calc.div
              /\ divs.nfrac[1] = 0

\* A calculation has selected divider 28 and stored 14.
C12_Witness == CalcOk /\ calc.div = 28 /\ divs.nint[1] = 14

\* No even divider from 6 on gives rate (at least 1000 Hz) a VCO frequency
\* in [2,999,997,000, 4,000,004,000].
NoFeasibleDivider(rate) ==
    \A k \in 6..(4000004 \div (rate \div 1000)) :
        ~(k % 2 = 0 /\ WLe(IDT24x_VCO_MIN, WMul(W(rate), k))
                    /\ WLe(WMul(W(rate), k), IDT24x_VCO_MAX))

\* The rate of a set-rate request is out of [1 MHz, 300 MHz] or has no
\* feasible divider.
RangeError(rate) ==
    IF rate < 1000000 \/ rate > 300000000 THEN TRUE
    ELSE NoFeasibleDivider(rate)

\* C13: a set-rate request with a rate below 1 MHz or above 300 MHz, or
\* with no feasible divider, returns the invalid-argument error, and no
\* register write is issued during the call.
C13_RangeErrorBeforeWrites ==
    (call.fn = "set_rate" /\ RangeError(call.rate)) =>
        ret = -EINVAL /\ wlog = <<>>

\* A request just below the minimum or just above the maximum has been
\* refused on a device that had been programmed before.
C13_Witness ==
    /\ call.fn = "set_rate"
    /\ call.n = 2
    /\ call.rate \in {999999, 300000001}
    /\ ret = -EINVAL
    /\ hw[IDT24x_REG_DSM_INT_7_0] = 70

\* C14: a set-rate request of 0 Hz returns success, computes no dividers
\* and, its writes succeeding, writes the enable and the disable register
\* with the enable bit of the output cleared and its disable bit set.
C14_ZeroRateDisables ==
    (call.fn = "set_rate" /\ call.rate = 0 /\ call.fail = {}) =>
        /\ ret = 0
        /\ calc = NoCalc
        /\ Len(wlog) = 2
        /\ wlog[1].reg = IDT24x_REG_OUTEN
        /\ BitAnd(wlog[1].val, IDT24x_REG_OUTEN2_MASK) = 0
        /\ wlog[2].reg = IDT24x_REG_Q_DIS
        /\ BitAnd(wlog[2].val, IDT24x_REG_Q2_DIS_MASK)
              = IDT24x_REG_Q2_DIS_MASK

\* C15: a set-rate request of a rate other than zero made while the
\* oscillator frequency and the upstream clock frequency are both zero
\* fails with an error, with no divider calculated and no register
\* written.
C15_NoReferenceBeforeCalc ==
    (/\ call.fn = "set_rate"
     /\ call.rate # 0
     /\ data.input_clk_freq = <<0, 0>>
     /\ data.xtal_freq = <<0, 0>>) =>
        /\ ret < 0
        /\ calc = NoCalc
        /\ divs = NoDivs
        /\ wlog = <<>>

\* A request of 125 MHz has been refused on a device without a reference,
\* the rate having passed the range check and been stored.
C15_Witness ==
    /\ call.fn = "set_rate"
    /\ call.rate = 125000000
    /\ data.frequencies[2] = 125000000
    /\ data.input_clk_freq = <<0, 0>>
    /\ data.xtal_freq = <<0, 0>>
    /\ ret = -EINVAL

----------------------------------------------------------------------------
(* Retried writes                                                          *)

\* The bus transactions of the write that has returned: all attempted, and
\* those that failed.
Attempted == Len(wlog)

RetryDone == call.fn \in {"i2cwrite", "i2cwritebulk"}

AllAttemptsFail == \A k \in 1..MaxTried : call.out[k] # 0

\* C17: a register write or the write of a bulk chunk attempts the bus
\* transaction at most 5 times, and exactly 5 times when every attempt
\* fails.
C17_AtMostFiveAttempts ==
    RetryDone =>
        /\ Attempted <= 5
        /\ AllAttemptsFail => Attempted = 5

\* C18: a register write whose bus transaction fails four times and then
\* succeeds returns 0 after exactly five attempts.
C18_FifthAttemptSucceeds ==
    (/\ call.fn = "i2cwrite"
     /\ \A k \in 1..4 : call.out[k] # 0
     /\ call.out[5] = 0) =>
        /\ ret = 0
        /\ Attempted = 5
        /\ hw[call.reg] = call.val

\* A write has returned whose first four attempts failed with different
\* errors, whose fifth succeeded and whose sixth would have failed.
C18_Witness ==
    /\ call.fn = "i2cwrite"
    /\ call.out[1] = -EIO
    /\ call.out[4] = -EINVAL
    /\ \A k \in 1..4 : call.out[k] # 0
    /\ call.out[5] = 0
    /\ call.out[6] # 0
    /\ ret = 0

\* C19: the error of a write that has failed at every attempt is what the
\* set-rate request returns.
C19_WriteErrorReachesCaller ==
    call.fn = "set_rate" =>
        \A i \in 1..Len(wlog) : wlog[i].err # 0 => ret = wlog[i].err

----------------------------------------------------------------------------
(* Order of the register writes                                            *)

\* A set-rate request has calculated dividers and applied them, every
\* write succeeding.
Applied ==
    call.fn = "set_rate" /\ ret = 0 /\ calc # NoCalc /\ call.fail = {}

\* The registers written by the call, in the order of the writes.
LogRegs == [i \in 1..Len(wlog) |-> wlog[i].reg]

\* 0x25, 0x26, 0x28, 0x29, 0x2A, 0x3F, 0x40, 0x41.
VcoAndQ0Regs == <<37, 38, 40, 41, 42, 63, 64, 65>>

\* The enable and the disable register, in the order they are written.
EnableRegs == <<IDT24x_REG_OUTEN, IDT24x_REG_Q_DIS>>

\* The seven divider registers of output x (1..3): the integer divider
\* from its high bits down, then the fractional divider likewise.
DividerRegs(x) ==
    CASE x = 1 -> <<IDT24x_REG_N_Q1_17_16, IDT24x_REG_N_Q1_15_8,
                    IDT24x_REG_N_Q1_7_0, IDT24x_REG_NFRAC_Q1_27_24,
                    IDT24x_REG_NFRAC_Q1_23_16, IDT24x_REG_NFRAC_Q1_15_8,
                    IDT24x_REG_NFRAC_Q1_7_0>>
      [] x = 2 -> <<IDT24x_REG_N_Q2_17_16, IDT24x_REG_N_Q2_15_8,
                    IDT24x_REG_N_Q2_7_0, IDT24x_REG_NFRAC_Q2_27_24,
                    IDT24x_REG_NFRAC_Q2_23_16, IDT24x_REG_NFRAC_Q2_15_8,
                    IDT24x_REG_NFRAC_Q2_7_0>>
      [] x = 3 -> <<IDT24x_REG_N_Q3_17_16, IDT24x_REG_N_Q3_15_8,
                    IDT24x_REG_N_Q3_7_0, IDT24x_REG_NFRAC_Q3_27_24,
                    IDT24x_REG_NFRAC_Q3_23_16, IDT24x_REG_NFRAC_Q3_15_8,
                    IDT24x_REG_NFRAC_Q3_7_0>>

Range(f) == {f[i] : i \in DOMAIN f}

\* The outputs among 1..3 of which a frequency is requested.
OutputsOn == {x \in 1..3 : data.frequencies[x] # 0}

\* The writes from position p on are the seven divider registers of output
\* x, then the enable and the disable register.
OutputBlockAt(x, p) ==
    /\ p + 8 <= Len(LogRegs)
    /\ {LogRegs[p + k] : k \in 0..6} = Range(DividerRegs(x))
    /\ <<LogRegs[p + 7], LogRegs[p + 8]>> = EnableRegs

\* The first eight writes are those of the VCO and of output Q0, and the
\* outputs with a frequency have their blocks of writes in ascending order.
BlocksInOrder ==
    /\ Len(LogRegs) >= 8
    /\ SubSeq(LogRegs, 1, 8) = VcoAndQ0Regs
    /\ \A x \in OutputsOn : \E p \in 9..Len(LogRegs) : OutputBlockAt(x, p)
    /\ \A x \in OutputsOn, y \in OutputsOn :
          x < y => \A p \in 9..Len(LogRegs), q \in 9..Len(LogRegs) :
                      OutputBlockAt(x, p) /\ OutputBlockAt(y, q) => p < q

\* C20 as stated: besides the order of the blocks, no write of the enable
\* or the disable register comes before the divider writes of output Q0
\* or before a divider write of an output with a frequency.
C20_AsStated ==
    Applied =>
        /\ BlocksInOrder
        /\ \A i \in 1..Len(LogRegs) :
              LogRegs[i] \in Range(EnableRegs) =>
                  /\ i > 8
                  /\ \A x \in OutputsOn, j \in 1..Len(LogRegs) :
                        LogRegs[j] \in Range(DividerRegs(x)) => j < i

\* The writes of one output of 1..3 in a successful apply: its divider
\* registers if a frequency is requested of it, then the enable and the
\* disable register in either case.
OutputTurn(x) ==
    (IF x \in OutputsOn THEN DividerRegs(x) ELSE <<>>) \o EnableRegs

\* C20: a fully successful apply writes the VCO dividers and the dividers
\* of output Q0, then the enable and the disable register for Q0, then for
\* each output 1..3 in ascending order its seven divider registers if a
\* frequency is requested of it, followed by the enable and the disable
\* register, which are written for the outputs without a frequency too.
\* The write that carries the enable bit of an output with a frequency
\* follows the divider writes of that output.
C20_WriteOrder ==
    Applied =>
        /\ BlocksInOrder
        /\ LogRegs = VcoAndQ0Regs \o EnableRegs \o OutputTurn(1)
                        \o OutputTurn(2) \o OutputTurn(3)
        /\ \A x \in OutputsOn, p \in 9..Len(LogRegs) :
              OutputBlockAt(x, p) =>
                  /\ BitAnd(wlog[p + 7].val, 2 ^ x) = 2 ^ x
                  /\ BitAnd(wlog[p + 8].val, 2 ^ x) = 0

\* A request of 125 MHz has been applied in full on a device whose output
\* Q2 was not enabled before.
C20_Witness ==
    /\ Applied
    /\ call.n = 1
    /\ call.rate = 125000000
    /\ Len(wlog) = 23
    /\ hw[IDT24x_REG_OUTEN] = 4

----------------------------------------------------------------------------
(* Apply: failures and output state                                        *)

\* A set-rate request has calculated dividers and gone on to apply them.
ApplyRan == call.fn = "set_rate" /\ calc # NoCalc

\* C21: a register write of an apply that fails, a write of the enable or
\* the disable register included, is the last write of the apply, and the
\* apply returns its error.
C21_FailedWriteEndsApply ==
    ApplyRan =>
        \A i \in 1..Len(wlog) :
            wlog[i].err # 0 => i = Len(wlog) /\ ret = wlog[i].err

\* Bit i of the enable register and of the disable register of the chip.
HwEnabled(i) == BitAnd(hw[IDT24x_REG_OUTEN], 2 ^ i) # 0

HwDisabled(i) == BitAnd(hw[IDT24x_REG_Q_DIS], 2 ^ i) # 0

\* C22: after an apply that has returned success, every output with a
\* requested frequency has its enable bit set and its disable bit clear on
\* the chip, and every output without one has its enable bit clear and its
\* disable bit set.
C22_OutputBitsFollowRequests ==
    (ApplyRan /\ ret = 0) =>
        \A i \in 0..3 :
            /\ HwEnabled(i) <=> data.frequencies[i] # 0
            /\ HwDisabled(i) <=> data.frequencies[i] = 0

----------------------------------------------------------------------------
(* Rate-change notifications                                               *)

PostChange == call.fn = "notifier" /\ call.event = "POST_RATE_CHANGE"

\* C23: a post-change notification stores the new rate as the reference
\* and runs one frequency-set transaction on it: with a frequency
\* requested, the pfd of the calculation is the new rate (doubled with the
\* doubler), and the dividers written are those of that calculation, the
\* first register of the apply being written once.
C23_PostChangeUsesNewRate ==
    PostChange =>
        /\ data.input_clk_freq = call.new_rate
        /\ IF data.frequencies[2] = 0 THEN calc = NoCalc
           ELSE /\ calc # NoCalc
                /\ calc.pfd = WMul(call.new_rate,
                                   IF data.doubler_disabled THEN 1 ELSE 2)
                /\ Cardinality({i \in 1..Len(wlog) :
                                  wlog[i].reg = IDT24x_REG_DSM_INT_8}) = 1
                /\ wlog[1].reg = IDT24x_REG_DSM_INT_8
                /\ Len(wlog) >= 2 =>
                      /\ wlog[2].reg = IDT24x_REG_DSM_INT_7_0
                      /\ wlog[2].val = divs.dsmint % 256

\* A device attached at 25 MHz and set to 125 MHz has been notified of a
\* change to 38.88 MHz and has recalculated with a pfd of 77.76 MHz.
C23_Witness ==
    /\ PostChange
    /\ dt.clk_rate = W(25000000)
    /\ call.new_rate = W(38880000)
    /\ data.frequencies[2] = 125000000
    /\ calc.pfd = W(77760000)
    /\ Len(wlog) = 23

----------------------------------------------------------------------------
(* Loading the shadows at attach                                           *)

\* The device has just attached: every read of idt24x_read_from_hw
\* succeeded and nothing has been written yet.
Loaded == call.fn = "probe" /\ pc = "attached"

\* The reads of the log that address register reg.
ReadsAt(reg) == {k \in 1..Len(rlog) : rlog[k].reg = reg}

\* C25: after a successful load, every tracked shadow byte has been read
\* exactly once at the address of its own register and holds the value
\* read there.
C25_OneReadPerShadowAtItsAddress ==
    Loaded =>
        \A reg \in ShadowRegs :
            /\ Cardinality(ReadsAt(reg)) = 1
            /\ ShadowOfReg(data, reg) = hw[reg]

\* Attach has failed on a read of the chip.
LoadFailed == pc \in {"failed", "fault"} /\ rlog # <<>>

\* The failing read is the last read issued and the only one that failed.
FirstReadErrorEndsLoad ==
    /\ rlog[Len(rlog)].err # 0
    /\ \A k \in 1..(Len(rlog) - 1) : rlog[k].err = 0

\* C26: when a read of the load fails, no further read is issued and attach
\* returns the error of that read; no operation runs on the device
\* afterwards, so nothing is written to the chip from the partly loaded
\* shadows.
C26_FailedLoadEndsAttach ==
    LoadFailed =>
        /\ FirstReadErrorEndsLoad
        /\ call.fn = "probe"
        /\ ret = rlog[Len(rlog)].err
        /\ wlog = <<>>

----------------------------------------------------------------------------
(* Bulk writes in chunks                                                   *)

\* A bulk write has returned.
BulkDone == call.fn \in {"i2cwritebulk", "probe"} /\ "val" \in DOMAIN call

\* The payloads of the first k chunks issued, one after the other.
RECURSIVE Payloads(_)
Payloads(k) == IF k = 0 THEN <<>> ELSE Payloads(k - 1) \o wlog[k].val

\* The bytes of the input that the chunks issued cover.
Covered == IF Len(wlog) * WRITE_BLOCK_SIZE < call.n
           THEN Len(wlog) * WRITE_BLOCK_SIZE ELSE call.n

\* The attempts a chunk gets when its first f attempts fail.
BudgetedAttempts(f) == IF f < I2cMaxAttempts + 1 THEN f + 1
                       ELSE I2cMaxAttempts + 1

\* C27: a bulk write of n bytes at address a is issued as chunks of at most
\* 32 bytes at a, a + 32, a + 64, ... whose payloads in order are the input
\* bytes; every chunk is retried on its own count of attempts; a chunk that
\* fails at every attempt is the last one issued and its error is returned,
\* and otherwise the whole input is written.  The settings image goes out
\* from offset 0 as 24 chunks of 32 bytes followed by one of 23.
C27_BulkWriteInChunks ==
    BulkDone =>
        /\ \A k \in 1..Len(wlog) :
              /\ Len(wlog[k].val) \in 1..WRITE_BLOCK_SIZE
              /\ wlog[k].reg = call.reg + (k - 1) * WRITE_BLOCK_SIZE
              /\ wlog[k].attempts =
                    IF k \in call.flaky THEN BudgetedAttempts(call.fails)
                    ELSE 1
              /\ wlog[k].err # 0 => k = Len(wlog) /\ ret = wlog[k].err
        /\ Payloads(Len(wlog)) = SubSeq(call.val, 1, Covered)
        /\ ret = 0 =>
              /\ Covered = call.n
              /\ \A k \in 1..Len(wlog) : wlog[k].err = 0
              /\ \A x \in 1..call.n : hw[call.reg + x - 1] = call.val[x]
        /\ (call.fn = "probe" /\ ret = 0) =>
              /\ call.reg = 0
              /\ Len(wlog) = 25
              /\ \A k \in 1..24 : Len(wlog[k].val) = 32
              /\ Len(wlog[25].val) = 23

\* The settings image has been written although the attempts at two of its
\* chunks failed five times each.
C27_Witness ==
    /\ call.fn = "probe"
    /\ ret = 0
    /\ Len(wlog) = 25
    /\ \E j, k \in 1..25 :
          j # k /\ wlog[j].attempts = 6 /\ wlog[k].attempts = 6

----------------------------------------------------------------------------
(* Widths of the products of the divider calculation                       *)

\* The value a fits the 32 bits of a u32.
FitsU32(a) == U32(a) = a

\* The dividers the walk of the calculation tries.
Walked == {k \in IDT24x_MIN_INT_DIVIDER..MaxDiv(Freq) : k % 2 = 0}

\* The factor of the reference in the pfd.
DoublerFactor == IF data.doubler_disabled THEN 1 ELSE 2

\* C28: for a rate from 1 MHz to 300 MHz and a reference up to 300 MHz, no
\* product of the divider calculation exceeds the width of its type, so
\* each has the value of the product of the integers: rate * 2 and
\* rate * candidate in 32 bits for every candidate of the walk, the VCO
\* frequency divider * rate in 32 bits, the pfd reference * factor in 32
\* bits, and the remainder shifted by 21 bits in 64 bits.
C28_NoProductWraps ==
    call.fn = "calc_divs" =>
        /\ FitsU32(WMul(W(Freq), 2))
        /\ \A k \in Walked : FitsU32(CandVco(k))
        /\ ret = 0 =>
              /\ calc.vco = ExactVco
              /\ calc.pfd = WMul(Reference, DoublerFactor)
              /\ WLt(calc.rem, calc.pfd)
              /\ calc.rem[1] < 2 ^ (64 - 21 - 16)

\* The calculation has succeeded for the highest rate with the highest
\* reference doubled, and its walk has tried a divider above the chosen one.
C28_Witness ==
    /\ CalcOk
    /\ Freq = IDT24x_MAX_FREQ
    /\ calc.pfd = W(600000000)
    /\ \E k \in Walked : k > calc.div

----------------------------------------------------------------------------
(* Transactions run to their end or to the first error                     *)

\* A frequency-set transaction has run: a set-rate call or the re-apply of
\* a post-change notification.
FrequencySet == call.fn = "set_rate" \/ PostChange

\* The bus attempts of the first k writes of the transaction: one for a
\* write that succeeds, and all the attempts of the retry for one that
\* fails.
RECURSIVE BusAttempts(_)
BusAttempts(k) ==
    IF k = 0 THEN 0
    ELSE BusAttempts(k - 1)
         + (IF wlog[k].err = 0 THEN 1 ELSE I2cMaxAttempts + 1)

\* C29: a frequency-set transaction ends after a bounded number of bus
\* attempts, with every write done or at the first write that fails after
\* its retries: no write follows a failed one.
C29_EndsAtFirstFailedWrite ==
    FrequencySet =>
        /\ BusAttempts(Len(wlog)) <= Len(wlog) + I2cMaxAttempts
        /\ \A i \in 1..Len(wlog) : wlog[i].err # 0 => i = Len(wlog)

----------------------------------------------------------------------------
(* A set-rate call and a post-change re-apply on one device                *)

\* The set-rate call and the re-apply of the two-transaction runs, each run
\* whole: alone from the state before the two, and one after the other in
\* either order.
SetAlone == idt24x_set_rate(call.data0, call.rate, NewBus(call.hw0, {}))

PostAlone ==
    idt24x_clk_notifier_cb(call.data0, "POST_RATE_CHANGE", call.new_rate,
                           NewBus(call.hw0, {}))

SetThenPost ==
    idt24x_clk_notifier_cb(SetAlone.data, "POST_RATE_CHANGE", call.new_rate,
                           NewBus(SetAlone.bus.hw, {}))

PostThenSet ==
    idt24x_set_rate(PostAlone.data, call.rate, NewBus(PostAlone.bus.hw, {}))

BothDone ==
    call.fn = "race" /\ call.set.at = "done" /\ call.post.at = "done"

\* The chip is as one of the two transactions alone, or as the two in one
\* of the serial orders, would leave it.
SerialOutcome ==
    hw \in {SetAlone.bus.hw, PostAlone.bus.hw,
            SetThenPost.bus.hw, PostThenSet.bus.hw}

----------------------------------------------------------------------------
(* The 'enable' attribute of a userspace clock                             *)

Usclk == pc = "usclk"

\* The calls the driver has made to the clock framework, and those of
\* them that succeeded.
ClkCalls == hw.calls

Succeeded == SelectSeq(ClkCalls, LAMBDA c : c.err = 0)

\* In the calls cs an enable and a disable take turns, an enable first.
Alternate(cs) ==
    \A k \in 1..Len(cs) :
        cs[k].op = IF k % 2 = 1 THEN "clk_prepare_enable"
                   ELSE "clk_disable_unprepare"

\* The state the attribute has after the calls that succeeded: 1 if the
\* last of them is an enable.
LastStateChange ==
    IF Succeeded # <<>> /\ Succeeded[Len(Succeeded)].op = "clk_prepare_enable"
    THEN 1 ELSE 0

\* The state a write asks for: 1 for a number other than 0.
Asked == IF kstrtoul(call.buf).val # 0 THEN 1 ELSE 0

\* What holds of the attribute with failed calls counted or not: the state
\* is that of the last change that succeeded and is what a read shows; the
\* driver holds the clock once when the state is 1 and not at all when it
\* is 0; a write of the present state calls nothing; a failed enable
\* returns -EBUSY and leaves the state 0.
EnableStateFollowsCalls ==
    /\ data.enabled = LastStateChange
    /\ hw.enable_count = data.enabled
    /\ call.fn = "enable_show" => wlog = <<IF LastStateChange = 1 THEN "1"
                                           ELSE "0", "\n">>
    /\ (call.fn = "enable_store" /\ kstrtoul(call.buf).err = 0
        /\ Asked = call.was) =>
          /\ Len(ClkCalls) = call.calls
          /\ ret = Len(call.buf)
    /\ (call.fn = "enable_store" /\ Len(ClkCalls) > call.calls
        /\ ClkCalls[Len(ClkCalls)].err # 0) =>
          /\ ret = -EBUSY
          /\ data.enabled = 0

\* C31 as stated: besides, all the enable and disable calls made take
\* turns.
C31_AsStated == Usclk => EnableStateFollowsCalls /\ Alternate(ClkCalls)

\* C31: the attribute reads 1 exactly when the last state-changing write
\* that succeeded was an enable; a write that repeats the state makes no
\* call to the clock framework; the enable and disable calls that succeed
\* take turns, an enable that failed being followed by another enable or
\* by none, and the enable count the driver holds is 0 or 1; a failed
\* enable returns -EBUSY and leaves the state 0.
C31_SucceededCallsAlternate ==
    Usclk => EnableStateFollowsCalls /\ Alternate(Succeeded)
                                     /\ hw.enable_count \in {0, 1}

\* An enable has failed, the next has succeeded, a disable has followed,
\* and the attribute has been read.
C31_Witness ==
    /\ Usclk
    /\ call.fn = "enable_show"
    /\ Len(ClkCalls) = 3
    /\ ClkCalls[1].err # 0
    /\ Len(Succeeded) = 2
    /\ data.enabled = 0

----------------------------------------------------------------------------
(* Only output Q2 is ever requested                                        *)

\* The outputs no rate is ever recorded for.
OtherOutputs == {0, 1, 3}

\* C32: the requested frequencies of outputs 0, 1 and 3 are always 0, and
\* an apply that has returned success has left these outputs disabled on
\* the chip and has written no divider register of outputs 1 and 3.
C32_OnlyOutputTwoIsRequested ==
    pc \in {"init", "attached", "failed", "fault"} =>
        /\ \A i \in OtherOutputs : data.frequencies[i] = 0
        /\ (ApplyRan /\ ret = 0) =>
              /\ \A i \in OtherOutputs : ~HwEnabled(i) /\ HwDisabled(i)
              /\ \A k \in 1..Len(wlog) :
                    wlog[k].reg \notin Range(DividerRegs(1))
                                       \cup Range(DividerRegs(3))

----------------------------------------------------------------------------
(* The shadow bits of an output after idt24x_enable_output                 *)

\* C33: after idt24x_enable_output(i, e), whether its writes succeeded or
\* not, the shadow enable bit of output i is e and its shadow disable bit
\* is the opposite.
C33_ShadowBitsComplementary ==
    call.fn = "enable_output" =>
        /\ BitOf(data.regOUTENx, call.output) = (IF call.enable THEN 1 ELSE 0)
        /\ BitOf(data.regQxDIS, call.output) = (IF call.enable THEN 0 ELSE 1)

\* Output 3 has been enabled while the write of the enable register failed:
\* the chip still has the output off and the shadow has it on.
C33_Witness ==
    /\ call.fn = "enable_output"
    /\ call.output = 3 /\ call.enable
    /\ ret # 0
    /\ Len(wlog) = 1
    /\ BitOf(hw[IDT24x_REG_OUTEN], 3) = 0
    /\ BitOf(data.regOUTENx, 3) = 1

----------------------------------------------------------------------------
(* Notifications while the device attaches                                 *)

\* idt24x_probe has registered the notifier and has not yet loaded the
\* shadows.
Attaching == pc \in {"registered", "regmap"}

\* C34: while the device attaches, before its register map exists and its
\* shadows are loaded, no register write has been issued for it, whatever
\* notification has arrived.
C34_NoWriteBeforeLoad == Attaching => wlog = <<>>

\* C35: once attach has returned an error no notification of the upstream
\* clock is delivered to the device: the last thing that ran on it is the
\* attach, and no callback runs on its released data.
C35_NoNotificationAfterFailedAttach ==
    /\ pc = "failed" => call.fn = "probe"
    /\ pc # "fault"

----------------------------------------------------------------------------
(* The phase-detector frequency as a divisor                               *)

\* idt24x_calc_divs has got as far as its division by pfd.
DividedByPfd == calc # NoCalc

\* C36: whenever idt24x_calc_divs divides by the phase-detector frequency
\* that frequency is not zero, whatever 32-bit rate the upstream clock has
\* been notified to have.
C36_PfdNonzeroWhenDivided == DividedByPfd => calc.pfd # <<0, 0>>

----------------------------------------------------------------------------
(* A rate within the range always has a divider                            *)

\* The rate of output Q2 has passed the range check of idt24x_set_rate.
RateInRange == Freq >= IDT24x_MIN_FREQ /\ Freq <= IDT24x_MAX_FREQ

\* C37: for a rate within [1,000,000, 300,000,000] the divider search
\* finds an even divider whose VCO frequency is in range, and the
\* calculation does not return the no-feasible-divider error.
C37_InRangeRateHasDivider ==
    (call.fn = "calc_divs" /\ RateInRange) =>
        /\ ret # -EINVAL
        /\ calc.div \in Candidates

\* The rate is one Hz above IDT24x_VCO_MAX / 14: divider 14 has just gone
\* out of range and the search has settled on divider 12.
C37_Witness ==
    /\ CalcOk
    /\ Freq = 285714572
    /\ Candidates = {12}
    /\ calc.div = 12

----------------------------------------------------------------------------
(* The feedback divider as written to the chip                             *)

\* A frequency-set transaction has written the five registers of the
\* feedback divider.
FeedbackWritten ==
    /\ PostChange
    /\ calc # NoCalc
    /\ Len(wlog) >= 5
    /\ \A i \in 1..5 : wlog[i].err = 0

\* The fields of the feedback divider as the chip holds them: bit 8 of
\* dsmint in 0x25 and bits 7..0 in 0x26, bits 20..16 of dsmfrac in 0x28,
\* 15..8 in 0x29 and 7..0 in 0x2A.
ChipDsmInt ==
    BitAnd(hw[IDT24x_REG_DSM_INT_8], 1) * 256 + hw[IDT24x_REG_DSM_INT_7_0]

ChipDsmFrac ==
    BitAnd(hw[IDT24x_REG_DSMFRAC_20_16], 31) * 65536
        + hw[IDT24x_REG_DSMFRAC_15_8] * 256 + hw[IDT24x_REG_DSMFRAC_7_0]

\* C38: the feedback divider written to the chip is the one calculated:
\* dsmint is below 2^9 and dsmfrac below 2^21, and the fields of the chip
\* put together give back both.
C38_FeedbackDividerFitsFields ==
    FeedbackWritten =>
        /\ divs.dsmint < 512
        /\ divs.dsmfrac < 2097152
        /\ ChipDsmInt = divs.dsmint
        /\ ChipDsmFrac = divs.dsmfrac

----------------------------------------------------------------------------
(* The rate reported for the clock                                         *)

\* The step is a set-rate call.
SetRateStep == call'.fn = "set_rate" /\ call'.n = call.n + 1

\* C39: a set-rate call whose rate passes the range check makes that rate
\* the reported rate, whatever the call then returns; one whose rate fails
\* the range check leaves the reported rate as it was, and so does a
\* notification; asking for the rate returns the reported rate and leaves
\* the device data and the chip as they were, with no register written.
C39_ReportedRateIsLastAccepted ==
    [][/\ SetRateStep =>
            IF call'.rate >= data.min_freq /\ call'.rate <= data.max_freq
            THEN idt24x_recalc_rate(data') = call'.rate
            ELSE /\ ret' = -EINVAL
                 /\ idt24x_recalc_rate(data') = idt24x_recalc_rate(data)
       /\ call'.fn = "notifier" =>
            idt24x_recalc_rate(data') = idt24x_recalc_rate(data)
       /\ call'.fn = "recalc_rate" =>
            /\ ret' = idt24x_recalc_rate(data)
            /\ data' = data
            /\ hw' = hw
            /\ wlog' = <<>>
            /\ rlog' = rlog]_vars

\* The rate has been asked for after a set-rate call of 125,000,000 Hz that
\* returned the error of a failed register write: 125,000,000 is reported.
C39_Witness ==
    /\ call.fn = "recalc_rate"
    /\ call.after = "set_rate"
    /\ call.err = -EIO
    /\ ret = 125000000

----------------------------------------------------------------------------
(* The shift of a mask                                                     *)

\* C40: bits_to_shift of a mask that is not zero is the index of the lowest
\* set bit of the mask, whether the mask has one bit set or more; of a zero
\* mask it is 32.
C40_ShiftIsTrailingZeros ==
    call.fn = "bits_to_shift" =>
        ret = IF call.mask = 0 THEN 32 ELSE TrailingZeros(call.mask)

\* bits_to_shift has returned 4 for the mask 0xF0, four bits set.
C40_Witness == call.fn = "bits_to_shift" /\ call.mask = 240 /\ ret = 4

============================================================================
